---- MODULE Spec2Model ----
(***************************************************************************)
(* A model of MDBRuntime (the driver of the mdb subprocess): the command   *)
(* queue, executeRawCommand / executeAndWait, the stdout listeners of      *)
(* waitForStdOut and collectFromStdOut, and the facade calls that use      *)
(* them.                                                                   *)
(*                                                                         *)
(* Node runs one macrotask at a time (a facade call, a stdout 'data'       *)
(* event, a timer tick) and then every promise continuation that became    *)
(* runnable.  The continuations are the actions guarded by a settled       *)
(* promise; the macrotasks are guarded by Quiescent (no continuation is    *)
(* runnable).                                                              *)
(*                                                                         *)
(* Text is a sequence of fragments: the prompt '>' is <<">">>, the string  *)
(* 'Running' is <<"Run", "ning">>, so that a chunk boundary can fall       *)
(* inside it.                                                              *)
(***************************************************************************)
EXTENDS Integers, Sequences, FiniteSets, TLC

VARIABLES
    mdbConfig,   \* MDBRuntime._mdbConfig (the timeout field)
    mdbThread,   \* MDBRuntime._mdbThread: 0 is null, else the id of the spawned process
    spawned,     \* how many times spawn() was called
    stdin,       \* what was written to the subprocess's stdin, in order: the command, the
                 \* process written to, and how many jobs were queued then (history)
    waits,       \* the promises of waitForStdOut / collectFromStdOut, with listener and timer
    execs,       \* the invocations of executeRawCommand / executeAndWait
    jobs,        \* _commandQueue.jobs
    q,           \* _commandQueue: pending, running, session, start callbacks, running job
    calls,       \* the facade calls that issue commands themselves: stack, evaluate
    symbols,     \* MDBRuntime._symbols
    pushed,      \* how many commands addCommandToQueue has been given
    runs,        \* how many times process() was called
    heard,       \* per wait: what was emitted while it was pending and listening (history)
    scen,        \* the scenario checked: which outputs the subprocess may produce
    bpObjs,      \* the MDBBreakpoint objects made so far: id, line, verified
    breakPoints, \* MDBRuntime._breakPoints: per file the list of its objects (indices of bpObjs)
    breakpointId, \* MDBRuntime._breakpointId
    submitted,   \* per command given to addCommandToQueue, in order: its text and callback
    events,      \* what sendEvent was called with, in order
    told,        \* the calls of the callbacks that callers passed to the facade, in order
    clearCalls,  \* how many times clearBreakPoint was called (history)
    stdoutBuffer,    \* MDBRuntime._stdoutBuffer
    stdoutBuffering, \* MDBRuntime._stdoutBuffering
    eventType,   \* MDBRuntime.eventType ("" is undefined)
    script,      \* what the subprocess has yet to print, in order
    fired        \* the event data parseStdOutMessage gave to fireEventsForData, in order

bpVars == <<bpObjs, breakPoints, breakpointId, events, told, clearCalls>>

outVars == <<stdoutBuffer, stdoutBuffering, eventType, script, fired>>

vars == <<mdbConfig, mdbThread, spawned, stdin, waits, execs, jobs, q, calls,
          symbols, pushed, runs, heard, scen, bpVars, submitted, outVars>>

-----------------------------------------------------------------------------
(* Bounds *)

MaxPushed == 3
MaxRuns == 2
MaxCalls == 2
MaxAcc == 3
MaxBps == 2
MaxClears == 1
MaxStops == 2
BpMaxPushed == 3
BpMaxRuns == 1
ClearMaxPushed == 5
StartMaxCalls == 1
ClearMaxCalls == 1
ClearMaxOps == 4
MaxSyms == 2
MaxToolConfig == 1
MaxLines == 2
FramesMaxCalls == 1
MaxChunk == 2
OrderMaxCalls == 1
EvalMaxCalls == 2
IdleMaxPushed == 3
IdleMaxRuns == 1
RejectMaxPushed == 3
RejectMaxRuns == 1
RejectMaxCalls == 1
WaitMaxRuns == 2
TickMs == 15000

(* Program constants *)

DefaultTimeout == 30000
Concurrency == 1
DeclaredTimeout == 20000

\* what get() returns for a key that is not set: a value equal to no timeout
Undefined == -1

-----------------------------------------------------------------------------
(* Text *)

PromptMarker == <<">">>
ErrMarker == <<"err">>
NewLine == <<"CRLF">>

\* String.prototype.includes / a match of a pattern without anchors
Includes(text, pat) ==
    \E i \in 0..(Len(text) - Len(pat)) : SubSeq(text, i + 1, i + Len(pat)) = pat

\* Output that is parsed character by character is a sequence of one-character
\* fragments; "CRLF" is '\r\n' and "LF" a '\n' without '\r'.
Alphabet == << "a", "b", "c", "d", "e", "f", "g", "h", "i", "j", "k", "l", "m",
               "n", "o", "p", "q", "r", "s", "t", "u", "v", "w", "x", "y", "z" >>

Capitals == << "A", "B", "C", "D", "E", "F", "G", "H", "I", "J", "K", "L", "M",
               "N", "O", "P", "Q", "R", "S", "T", "U", "V", "W", "X", "Y", "Z" >>

Numerals == << "0", "1", "2", "3", "4", "5", "6", "7", "8", "9" >>

Range(seq) == {seq[i] : i \in DOMAIN seq}

CapitalLetters == Range(Capitals)
Digits == Range(Numerals)

IndexOf(seq, x) == CHOOSE i \in DOMAIN seq : seq[i] = x

\* String.prototype.toLowerCase
LowerCase(ch) == IF ch \in CapitalLetters THEN Alphabet[IndexOf(Capitals, ch)] ELSE ch

ToLowerCase(text) ==
    LET lower == [i \in DOMAIN text |-> LowerCase(text[i])]
    IN SubSeq(lower, 1, Len(lower))

\* the characters as one string
RECURSIVE Str(_)
Str(chars) == IF chars = <<>> THEN "" ELSE chars[1] \o Str(Tail(chars))

\* what the pattern character '.' does not match
LineTerminator == {"CR", "LF", "CRLF"}

\* \d
Digit(ch) == ch \in Digits

\* the length of text[i..] up to the first of the positions stops
UpTo(text, i, stops) ==
    IF i > Len(text) THEN 0
    ELSE IF stops = {} THEN Len(text) - i + 1
    ELSE (CHOOSE j \in stops : \A k \in stops : j <= k) - i

\* the length of the longest prefix of text[i..] whose characters are in chars
Run(text, i, chars) == UpTo(text, i, {j \in i..Len(text) : text[j] \notin chars})

\* the length of the longest prefix of text[i..] without a character of chars
RunExcept(text, i, chars) == UpTo(text, i, {j \in i..Len(text) : text[j] \in chars})

StartsWith(text, i, pat) ==
    /\ i + Len(pat) - 1 <= Len(text)
    /\ \A j \in 1..Len(pat) : text[i + j - 1] = pat[j]

\* what parseInt gives for a string that does not start with a digit
NaN == -2

\* the digits of radix 16, in order of their value
HexNumerals == Numerals \o SubSeq(Alphabet, 1, 6)

RECURSIVE ValueOf(_, _)
ValueOf(digits, radix) ==
    IF digits = <<>> THEN 0
    ELSE ValueOf(SubSeq(digits, 1, Len(digits) - 1), radix) * radix
            + IndexOf(HexNumerals, digits[Len(digits)]) - 1

\* parseInt(text, radix) for a text without leading blanks or sign: an optional
\* 0x when the radix is 16, then the longest run of digits
ParseInt(text, radix) ==
    LET s == ToLowerCase(text)
        body == IF radix = 16 /\ StartsWith(s, 1, <<"0", "x">>) THEN SubSeq(s, 3, Len(s)) ELSE s
        n == Run(body, 1, {HexNumerals[v] : v \in 1..radix})
    IN IF n = 0 THEN NaN ELSE ValueOf(SubSeq(body, 1, n), radix)

HexPrefix == << "0", "x" >>

\* convertHexToNumber
ConvertHexToNumber(hexString) == ParseInt(hexString, 16)

\* Number.prototype.toString(): the decimal digits of n
RECURSIVE ToDecimal(_)
ToDecimal(n) ==
    IF n < 10 THEN <<Numerals[n + 1]>> ELSE ToDecimal(n \div 10) \o <<Numerals[(n % 10) + 1]>>

\* the digits of n in radix 16, at least `width` of them
RECURSIVE ToHex(_, _)
ToHex(n, width) ==
    IF n < 16 /\ width <= 1 THEN <<HexNumerals[n + 1]>>
    ELSE ToHex(n \div 16, width - 1) \o <<HexNumerals[(n % 16) + 1]>>

\* convertNumberToHex
ConvertNumberToHex(number) == HexPrefix \o ToHex(number, 1)

\* [a-zA-Z0-9]
AlphaNumeric == Range(Alphabet) \cup CapitalLetters \cup Digits

\* the last fragment of a pattern that ends with [a-zA-Z0-9]+
AlphaNumerics == "[a-zA-Z0-9]+"

\* a pattern that ends with [a-zA-Z0-9]+ matches text at i
MatchesAt(text, i, pat) ==
    /\ StartsWith(text, i, SubSeq(pat, 1, Len(pat) - 1))
    /\ Run(text, i + Len(pat) - 1, AlphaNumeric) >= 1

\* RegExp.prototype.test / String.prototype.match: is there a match
Matches(text, pat) ==
    IF pat # <<>> /\ pat[Len(pat)] = AlphaNumerics
    THEN \E i \in 1..Len(text) : MatchesAt(text, i, pat)
    ELSE Includes(text, pat)

\* the pattern of evaluate's address-of query; "address" is the text
\* 'the address of <expression>: '
AddressOf == <<"address">> \o HexPrefix \o <<AlphaNumerics>>

\* result.match(pattern)[1]: the group (0x[a-zA-Z0-9]+) of the leftmost match
MatchedAddress(result) ==
    LET i == CHOOSE k \in 1..Len(result) :
                 /\ MatchesAt(result, k, AddressOf)
                 /\ \A j \in 1..(k - 1) : ~MatchesAt(result, j, AddressOf)
    IN SubSeq(result, i + 1, i + Len(HexPrefix) + Run(result, i + 1 + Len(HexPrefix),
                                                      AlphaNumeric))

\* The pattern a command waits for; <<>> when the caller passes none.
Pattern(cmd) ==
    CASE cmd = "Run" -> <<"Run", "ning">>
      [] cmd = "Break" -> <<"Breakpoint">>
      [] cmd = "Backtrace" -> <<"null">>
      [] cmd = "PrintA" -> AddressOf
      [] cmd = "Print" -> <<"{", "}">>
      [] cmd = "Program" -> <<"Program succeeded">>
      [] OTHER -> <<>>


\* String.prototype.split(separator) for a separator of one fragment
RECURSIVE Split(_, _)
Split(text, sep) ==
    IF \E i \in DOMAIN text : text[i] = sep
    THEN LET i == CHOOSE k \in DOMAIN text : text[k] = sep /\ \A j \in 1..(k - 1) : text[j] # sep
         IN <<SubSeq(text, 1, i - 1)>> \o Split(SubSeq(text, i + 1, Len(text)), sep)
    ELSE <<text>>

\* Array.prototype.join(separator)
RECURSIVE Join(_, _)
Join(parts, sep) ==
    IF Len(parts) = 0 THEN <<>>
    ELSE IF Len(parts) = 1 THEN parts[1]
    ELSE parts[1] \o <<sep>> \o Join(Tail(parts), sep)

-----------------------------------------------------------------------------
(* Promises and listeners *)

Resolve(w) == IF w.state = "pending" THEN [w EXCEPT !.state = "resolved"] ELSE w

Reject(w, why) == IF w.state = "pending" THEN [w EXCEPT !.state = why] ELSE w

\* new Promise(...) of waitForStdOut: the listener is attached with
\* this._mdbThread?.stdout?.on, so only when a subprocess exists.
WaitForStdOut(pat, thread, timeout) ==
    [kind |-> "wait", pat |-> pat, state |-> "pending", attached |-> thread # 0,
     timerOn |-> TRUE, timeLeft |-> timeout, timeout |-> timeout, acc |-> <<>>]

CollectFromStdOut(thread) ==
    [kind |-> "collect", pat |-> NewLine, state |-> "pending", attached |-> thread # 0,
     timerOn |-> FALSE, timeLeft |-> 0, timeout |-> 0, acc |-> <<>>]

\* resolve(dataAsMessage): the chunk that matched.  It is kept for the one
\* caller that reads it, evaluate after its address-of query.
Resolution(w, chunk) == IF w.pat = AddressOf THEN chunk ELSE <<>>

\* (mutant) the pattern is looked for before the error marker
WaitListenerPatternFirst(w, chunk) ==
    IF Matches(chunk, w.pat)
    THEN Resolve([w EXCEPT !.timerOn = FALSE, !.timeLeft = 0, !.attached = FALSE,
                           !.acc = Resolution(w, chunk)])
    ELSE IF Includes(chunk, ErrMarker) THEN Reject(w, "error")
    ELSE w

\* the 'data' listener of waitForStdOut.  (timeLeft is not read again once the
\* interval is cleared; it is zeroed so that equal states compare equal.)
WaitListener(w, chunk) ==
    IF Includes(chunk, ErrMarker)
    THEN Reject(w, "error")
    ELSE IF Matches(chunk, w.pat)
         THEN Resolve([w EXCEPT !.timerOn = FALSE, !.timeLeft = 0, !.attached = FALSE,
                                !.acc = Resolution(w, chunk)])
         ELSE w

\* the 'data' listener of collectFromStdOut
CollectListener(w, chunk) ==
    LET acc == w.acc \o chunk
    IN IF Includes(acc, NewLine)
       THEN Resolve([w EXCEPT !.acc = acc, !.attached = FALSE])
       ELSE [w EXCEPT !.acc = acc]

Listener(w, chunk) ==
    IF ~w.attached THEN w
    ELSE IF w.kind = "collect" THEN CollectListener(w, chunk)
    ELSE WaitListener(w, chunk)

\* (mutant) the chunk is consumed by the listener attached first
EmitToFirst(ws, chunk) ==
    [i \in DOMAIN ws |->
        IF ws[i].attached /\ \A j \in 1..(i - 1) : ~ws[j].attached
        THEN Listener(ws[i], chunk) ELSE ws[i]]

\* stdout.emit('data', chunk): every attached listener is called with the chunk
Emit(ws, chunk) == [i \in DOMAIN ws |-> Listener(ws[i], chunk)]

\* the setInterval callback of waitForStdOut, ms milliseconds at once
IntervalTick(w, ms) ==
    IF ~w.timerOn THEN w
    ELSE IF w.timeLeft - ms <= 0
         THEN Reject([w EXCEPT !.timeLeft = 0, !.timerOn = FALSE], "timeout")
         ELSE [w EXCEPT !.timeLeft = @ - ms]

-----------------------------------------------------------------------------
(* History: of the chunks a listening wait was called with, the last one,
   whether its pattern occurs in their concatenation (tail is the end of the
   concatenation, as long as a pattern that straddles the next boundary needs),
   and whether the last one also went to the listener of a wait that had ended *)

NothingHeard == [last |-> <<>>, tail |-> <<>>, occurred |-> FALSE, leaked |-> FALSE]

LastN(text, n) == IF Len(text) <= n THEN text ELSE SubSeq(text, Len(text) - n + 1, Len(text))

Hear(h, pat, chunk, leaked) ==
    [last |-> chunk,
     tail |-> LastN(h.tail \o chunk, Len(pat) - 1),
     occurred |-> h.occurred \/ Matches(h.tail \o chunk, pat),
     leaked |-> leaked]

-----------------------------------------------------------------------------
(* The runtime's state as one record, so that the methods compose *)

Runtime ==
    [mdbThread |-> mdbThread, spawned |-> spawned, stdin |-> stdin, waits |-> waits,
     execs |-> execs, jobs |-> jobs, q |-> q]

Commit(r) ==
    /\ mdbThread' = r.mdbThread
    /\ spawned' = r.spawned
    /\ stdin' = r.stdin
    /\ waits' = r.waits
    /\ execs' = r.execs
    /\ jobs' = r.jobs
    /\ q' = r.q
    /\ heard' = [i \in DOMAIN r.waits |-> IF i \in DOMAIN heard THEN heard[i] ELSE NothingHeard]

\* (mutant) guardMDBSetup without its test of _mdbThread
GuardSpawnsAlways(thread) == TRUE

\* guardMDBSetup, up to its await: TRUE when it has to spawn
GuardSpawns(thread) == thread = 0

\* executeRawCommand(cmd), up to its first await.  wp is the wait of the
\* executeAndWait that called it (0: called on its own).
\*   raw = "guard": awaiting guardMDBSetup, which awaits the first prompt (wait wr)
\*   raw = "ready": guardMDBSetup returned at once; the write is the next continuation
ExecuteRawCommand(r, cmd, n, owner, wp) ==
    IF GuardSpawns(r.mdbThread)
    THEN LET ws == Append(r.waits, WaitForStdOut(PromptMarker, r.spawned + 1, DefaultTimeout))
         IN [r EXCEPT !.mdbThread = r.spawned + 1,
                      !.spawned = @ + 1,
                      !.waits = ws,
                      !.execs = Append(@, [cmd |-> cmd, n |-> n, owner |-> owner, wp |-> wp,
                                           raw |-> "guard", wr |-> Len(ws), written |-> FALSE])]
    ELSE [r EXCEPT !.execs = Append(@, [cmd |-> cmd, n |-> n, owner |-> owner, wp |-> wp,
                                        raw |-> "ready", wr |-> 0, written |-> FALSE])]

\* executeAndWait(cmd, pattern), up to its first await
ExecuteAndWait(r, cmd, n, owner) ==
    LET ws == Append(r.waits, WaitForStdOut(Pattern(cmd), r.mdbThread, DefaultTimeout))
    IN ExecuteRawCommand([r EXCEPT !.waits = ws], cmd, n, owner, Len(ws))

\* the job addCommandToQueue pushes
RunJob(r, cmd, n) ==
    IF Pattern(cmd) # <<>> THEN ExecuteAndWait(r, cmd, n, 0)
    ELSE ExecuteRawCommand(r, cmd, n, 0, 0)

\* the promise of executeRawCommand
RawState(ws, e) ==
    CASE e.raw = "ok" -> "ok"
      [] e.raw = "fail" -> "fail"
      [] OTHER -> "pending"

\* the promise of executeAndWait (await stdOutPromise; await executePromise) or,
\* for a bare executeRawCommand, of that
ExecState(ws, e) ==
    IF e.wp = 0 THEN RawState(ws, e)
    ELSE IF ws[e.wp].state = "pending" THEN "pending"
    ELSE IF ws[e.wp].state # "resolved" THEN "fail"
    ELSE RawState(ws, e)


-----------------------------------------------------------------------------
(* _commandQueue = queue({ results: [], concurrency: 1 }): the npm package
   queue, version 6 (package.json).  process() starts it with a callback;
   start(cb) registers, for that callback, an 'error' listener that calls
   end(err) and an 'end' listener that removes both listeners. *)

\* done(): session++, running = false, emit('end'): every callback given to
\* start() removes its listeners
QDone(qq) == [qq EXCEPT !.session = @ + 1, !.running = FALSE, !.cbs = 0]

\* (mutant) a queue made without concurrency: 1
QFullNever(qq) == FALSE

\* this.pending >= this.concurrency
QFull(qq) == qq.pending >= Concurrency

\* Queue.prototype.start(cb): shifts one job, runs it, and calls itself again
\* while there are jobs and room for them
RECURSIVE QStart(_, _)
QStart(r, cb) ==
    LET q1 == [r.q EXCEPT !.cbs = @ + (IF cb THEN 1 ELSE 0), !.running = TRUE]
    IN IF QFull(q1) THEN [r EXCEPT !.q = q1]
       ELSE IF r.jobs = <<>>
            THEN [r EXCEPT !.q = IF q1.pending = 0 THEN QDone(q1) ELSE q1]
            ELSE LET job == Head(r.jobs)
                     r1 == RunJob([r EXCEPT !.jobs = Tail(@)], job.cmd, job.n)
                     r2 == [r1 EXCEPT !.q = [q1 EXCEPT !.pending = @ + 1,
                                                       !.cur = Len(r1.execs),
                                                       !.curSession = q1.session]]
                 IN IF r2.jobs # <<>> THEN QStart(r2, FALSE) ELSE r2

\* the 'error' listeners that start(cb) registered: each calls end(err), which
\* empties jobs, zeroes pending and calls done()
QEnd(r) ==
    [r EXCEPT !.jobs = <<>>,
              !.q = [@ EXCEPT !.pending = 0, !.session = @ + r.q.cbs,
                              !.running = FALSE, !.cbs = 0]]

\* next(err) of the running job
QNext(r, err) ==
    LET r1 == [r EXCEPT !.q.pending = @ - 1, !.q.cur = 0]
    IN IF err
       THEN IF r1.q.cbs = 0 THEN r1 ELSE QEnd(r1)
       ELSE IF r1.q.pending = 0 /\ r1.jobs = <<>> THEN [r1 EXCEPT !.q = QDone(@)]
            ELSE IF r1.q.running THEN QStart(r1, FALSE)
            ELSE r1

-----------------------------------------------------------------------------
(* Which continuations are runnable *)

RawRunnable(e) ==
    \/ e.raw = "ready"
    \/ e.raw \in {"guard", "sent"} /\ waits[e.wr].state # "pending"

NextRunnable ==
    /\ q.cur # 0
    /\ q.session = q.curSession
    /\ ExecState(waits, execs[q.cur]) # "pending"

CallRunnable(c) ==
    \/ c.pc \in {"backtrace", "address"} /\ ExecState(waits, execs[c.exec]) # "pending"
    \/ c.pc = "waiting" /\ c.waiting = {}
    \/ c.pc \in {"set", "device", "hwtool", "program"}
          /\ ExecState(waits, execs[c.exec]) # "pending"
    \/ c.pc = "never returns"
    \/ /\ c.pc = "read"
       /\ \/ ExecState(waits, execs[c.exec]) = "fail"
          \/ ExecState(waits, execs[c.exec]) = "ok" /\ waits[c.collect].state = "resolved"

Quiescent ==
    /\ \A i \in DOMAIN execs : ~RawRunnable(execs[i])
    /\ ~NextRunnable
    /\ \A i \in DOMAIN calls : ~CallRunnable(calls[i])

-----------------------------------------------------------------------------
(* The commands given to addCommandToQueue and their callbacks *)

NoCallback == [kind |-> "none", obj |-> 0, call |-> 0]

\* the argument of the command (the id of `Delete id`, the line of
\* `Break file:line`) and the callback; the command's name is in its job
Submission(arg, cb) == [arg |-> arg, cb |-> cb]

-----------------------------------------------------------------------------
(* The facade *)

\* addCommandToQueue(command, pattern, callback), as setBreakPoint (Break) and
\* clearBreakPoint / clearBreakpoints (Delete) call it: the job is only pushed
AddCommandToQueue(cmd) ==
    /\ Quiescent
    /\ cmd \in scen.cmds
    /\ pushed < scen.maxPushed
    /\ jobs' = Append(jobs, [cmd |-> cmd, n |-> pushed + 1])
    /\ pushed' = pushed + 1
    /\ submitted' = Append(submitted, Submission(0, NoCallback))
    /\ UNCHANGED <<bpVars, mdbConfig, outVars, mdbThread, spawned, stdin, waits, execs, q, calls,
                   symbols, runs, heard, scen>>

\* continue(): addCommandToQueue('Run', 'Running'); run() -> process() -> start(cb)
Continue ==
    /\ Quiescent
    /\ pushed < scen.maxPushed
    /\ runs < scen.maxRuns
    /\ Commit(QStart([Runtime EXCEPT !.jobs = Append(@, [cmd |-> "Run", n |-> pushed + 1])],
                     TRUE))
    /\ pushed' = pushed + 1
    /\ runs' = runs + 1
    /\ submitted' = Append(submitted, Submission(0, NoCallback))
    /\ UNCHANGED <<bpVars, mdbConfig, outVars, calls, symbols, scen>>

\* step(): run(event) -> process() -> start(cb)
Step ==
    /\ Quiescent
    /\ runs < scen.maxRuns
    /\ Commit(QStart(Runtime, TRUE))
    /\ runs' = runs + 1
    /\ UNCHANGED <<bpVars, submitted, mdbConfig, outVars, calls, symbols, pushed, scen>>

\* stack(): executeAndWait('Backtrace full n', 'null'), not through the queue
Stack ==
    /\ Quiescent
    /\ Len(calls) < scen.maxCalls
    /\ LET r == ExecuteAndWait(Runtime, "Backtrace", 0, Len(calls) + 1)
       IN /\ Commit(r)
          /\ calls' = Append(calls, [op |-> "stack", pc |-> "backtrace",
                                     exec |-> Len(r.execs), collect |-> 0])
    /\ eventType' = "STACK_FRAMES"
    /\ stdoutBuffer' = <<>>
    /\ stdoutBuffering' = TRUE
    /\ UNCHANGED <<bpVars, submitted, mdbConfig, script, fired, symbols, pushed, runs, scen>>

\* this._symbols[expression]: the symbol in a sequence of its own, and the
\* empty sequence for undefined
SymbolInformation(syms, expr) ==
    IF expr \in DOMAIN syms THEN <<syms[expr]>> ELSE <<>>

\* evaluate(expression), up to its first await
Evaluate(expr) ==
    /\ Quiescent
    /\ Len(calls) < scen.maxCalls
    /\ LET r == ExecuteAndWait(Runtime, IF expr \in DOMAIN symbols THEN "Print" ELSE "PrintA",
                               0, Len(calls) + 1)
       IN /\ Commit(r)
          /\ calls' = Append(calls, [op |-> "evaluate", pc |-> "address",
                                     exec |-> Len(r.execs), collect |-> 0,
                                     existingSymbolInformation |->
                                         SymbolInformation(symbols, expr)])
    /\ UNCHANGED <<bpVars, submitted, mdbConfig, outVars, symbols, pushed, runs, scen>>

-----------------------------------------------------------------------------
(* Breakpoints.  _breakPoints maps a normalized path to an array of objects;
   a path without an entry and a path with an empty array behave alike in
   every method, so both are the empty list here.  A callback keeps the
   object it closed over, also after the object has left the list. *)

\* (mutant) the id is used without being incremented
NextBreakpointIdSame(id) == id

\* this._breakpointId++
NextBreakpointId(id) == id + 1

\* getBreakpoints(filePath, line)
GetBreakpoints(objs, bps, file, line) ==
    SelectSeq(bps[file], LAMBDA o : objs[o].line >= line)

\* (mutant) verifyBreakpoints stops after the first unverified breakpoint
UnverifiedFirst(objs, list) ==
    SubSeq(SelectSeq(list, LAMBDA o : ~objs[o].verified), 1, 1)

\* the breakpoints verifyBreakpoints sends a Break command for
Unverified(objs, list) == SelectSeq(list, LAMBDA o : ~objs[o].verified)

\* bps.findIndex(bp => bp.line === line), counted from 1; 0 when there is none
FindIndex(objs, list, line) ==
    IF \E i \in DOMAIN list : objs[list[i]].line = line
    THEN CHOOSE i \in DOMAIN list :
            /\ objs[list[i]].line = line
            /\ \A j \in 1..(i - 1) : objs[list[j]].line # line
    ELSE 0

\* (mutant) the list is left as it is
SpliceNone(list, index) == list

\* bps.splice(index, 1)
Splice(list, index) == SubSeq(list, 1, index - 1) \o SubSeq(list, index + 1, Len(list))

\* setBreakPoint(filePath, line): a new object is pushed, then verifyBreakpoints
\* pushes a Break command for every unverified breakpoint of the file
SetBreakPoint(file, line) ==
    /\ Quiescent
    /\ Len(bpObjs) < MaxBps
    /\ LET objs == Append(bpObjs, [id |-> breakpointId, line |-> line, verified |-> FALSE])
           list == Append(breakPoints[file], Len(objs))
           u == Unverified(objs, list)
       IN /\ pushed + Len(u) <= scen.maxPushed
          /\ bpObjs' = objs
          /\ breakpointId' = NextBreakpointId(breakpointId)
          /\ breakPoints' = [breakPoints EXCEPT ![file] = list]
          /\ jobs' = jobs \o [i \in 1..Len(u) |-> [cmd |-> "Break", n |-> pushed + i]]
          /\ submitted' = submitted \o
                 [i \in 1..Len(u) |->
                     Submission(objs[u[i]].line,
                                [kind |-> "verify", obj |-> u[i], call |-> 0])]
          /\ pushed' = pushed + Len(u)
    /\ UNCHANGED <<mdbConfig, outVars, mdbThread, spawned, stdin, waits, execs, q, calls, symbols,
                   runs, heard, scen, events, told, clearCalls>>

\* clearBreakPoint(filePath, line, callback)
ClearBreakPoint(file, line) ==
    /\ Quiescent
    /\ clearCalls < MaxClears
    /\ pushed < scen.maxPushed
    /\ clearCalls' = clearCalls + 1
    /\ LET list == breakPoints[file]
           index == FindIndex(bpObjs, list, line)
       IN IF index > 0
          THEN /\ breakPoints' = [breakPoints EXCEPT ![file] = Splice(list, index)]
               /\ jobs' = Append(jobs, [cmd |-> "Delete", n |-> pushed + 1])
               /\ submitted' = Append(submitted,
                      Submission(bpObjs[list[index]].id,
                                 [kind |-> "cleared", obj |-> list[index], call |-> 0]))
               /\ pushed' = pushed + 1
          ELSE UNCHANGED <<breakPoints, jobs, submitted, pushed>>
    /\ UNCHANGED <<mdbConfig, outVars, mdbThread, spawned, stdin, waits, execs, q, calls, symbols,
                   runs, heard, scen, bpObjs, breakpointId, events, told>>

\* clearBreakpoints(filePath), up to its await
ClearBreakpoints(file) ==
    /\ Quiescent
    /\ Len(calls) < scen.maxCalls
    /\ LET list == breakPoints[file]
           k == Len(list)
       IN /\ pushed + k <= scen.maxPushed
          /\ jobs' = jobs \o [i \in 1..k |-> [cmd |-> "Delete", n |-> pushed + i]]
          /\ submitted' = submitted \o
                 [i \in 1..k |->
                     Submission(bpObjs[list[i]].id,
                                [kind |-> "clearAll", obj |-> list[i], call |-> Len(calls) + 1])]
          /\ pushed' = pushed + k
          /\ calls' = Append(calls, [op |-> "clearBreakpoints", pc |-> "waiting", exec |-> 0,
                                     collect |-> 0, file |-> file, registered |-> list,
                                     waiting |-> (pushed + 1)..(pushed + k)])
    /\ UNCHANGED <<mdbConfig, outVars, mdbThread, spawned, stdin, waits, execs, q, symbols,
                   runs, heard, scen, bpVars>>

\* clearBreakpoints after await Promise.all(promises)
ClearBreakpointsReturn(c) ==
    /\ calls[c].pc = "waiting"
    /\ calls[c].waiting = {}
    /\ calls' = [calls EXCEPT ![c].pc = "resolved"]
    /\ UNCHANGED <<bpVars, submitted, mdbConfig, outVars, mdbThread, spawned, stdin, waits, execs,
                   jobs, q, symbols, pushed, runs, heard, scen>>

\* (mutant) no breakpoint is found at the line
MatchingNone(objs, list, line) == <<>>

\* breakpoints.filter(bp => bp.line === data.line)
Matching(objs, list, line) == SelectSeq(list, LAMBDA o : objs[o].line = line)

\* this._breakPoints.get(normalizePath(data.file || '')) || []
BreakpointsOf(bps, file) == IF file \in DOMAIN bps THEN bps[file] ELSE <<>>

\* the body of fireEventsForData(data): nothing unless data is a STOP_AT
FireEvents(data) ==
    IF data.eventType = "STOP_AT"
    THEN LET bps == Matching(bpObjs, BreakpointsOf(breakPoints, data.file), data.line)
         IN IF bps # <<>>
            THEN IF ~bpObjs[bps[1]].verified
                 THEN /\ bpObjs' = [bpObjs EXCEPT ![bps[1]].verified = TRUE]
                      /\ events' = events \o
                             <<[type |-> "stopOnBreakpoint", obj |-> 0],
                               [type |-> "breakpointValidated", obj |-> bps[1]]>>
                 ELSE /\ events' = Append(events, [type |-> "stopOnBreakpoint", obj |-> 0])
                      /\ UNCHANGED bpObjs
            ELSE /\ events' = Append(events, [type |-> "stopOnException", obj |-> 0,
                                               file |-> data.file, line |-> data.line])
                 /\ UNCHANGED bpObjs
    ELSE UNCHANGED <<bpObjs, events>>

\* fireEventsForData(data) for a STOP_AT that names file and line: the stdout
\* listener of guardMDBSetup parsed it from output that holds no pattern a
\* command waits for
FireEventsForData(file, line) ==
    /\ Quiescent
    /\ mdbThread # 0
    /\ Len(SelectSeq(events, LAMBDA e : e.type \in {"stopOnBreakpoint", "stopOnException"}))
          < MaxStops
    /\ FireEvents([eventType |-> "STOP_AT", file |-> file, line |-> line])
    /\ UNCHANGED <<submitted, mdbConfig, outVars, mdbThread, spawned, stdin, waits, execs, jobs,
                   q, calls, symbols, pushed, runs, heard, scen, breakPoints, breakpointId,
                   told, clearCalls>>

-----------------------------------------------------------------------------
(* The ELF reader (utils/elf.ts).  An image is the sequence of its bytes: the
   byte at file offset o is bytes[o + 1].  The images read here are of class
   ELF32 (E_ident_class is not 2). *)

\* the element of a set of one element.  The({e : x \in {v}}) is e for x = v,
\* with v computed once however often e names x.
The(S) == CHOOSE v \in S : TRUE

\* what a DataView getter does for an offset outside the buffer: it throws
RangeError == -1

\* DataView.getUint8(offset)
GetUint8(bytes, offset) ==
    IF offset + 1 > Len(bytes) THEN RangeError ELSE bytes[offset + 1]

\* DataView.getUint16(offset, littleEndian)
GetUint16(bytes, offset, le) ==
    IF offset + 2 > Len(bytes) THEN RangeError
    ELSE IF le THEN bytes[offset + 1] + 256 * bytes[offset + 2]
         ELSE 256 * bytes[offset + 1] + bytes[offset + 2]

\* (mutant) the bytes are read in big-endian order whatever the header says
GetUint32BigEndian(bytes, offset, le) ==
    IF offset + 4 > Len(bytes) THEN RangeError
    ELSE 16777216 * bytes[offset + 1] + 65536 * bytes[offset + 2]
            + 256 * bytes[offset + 3] + bytes[offset + 4]

\* DataView.getUint32(offset, littleEndian)
GetUint32(bytes, offset, le) ==
    IF offset + 4 > Len(bytes) THEN RangeError
    ELSE IF le THEN bytes[offset + 1] + 256 * bytes[offset + 2]
                       + 65536 * bytes[offset + 3] + 16777216 * bytes[offset + 4]
         ELSE 16777216 * bytes[offset + 1] + 65536 * bytes[offset + 2]
                 + 256 * bytes[offset + 3] + bytes[offset + 4]

\* new ELFElement(fa, offset, valueSizeInBytes).value, for the sizes an ELF32
\* image is read with; fa is the ELFFileAccess: the bytes and littleEndian
ELFElement(fa, offset, valueSizeInBytes) ==
    CASE valueSizeInBytes = 1 -> GetUint8(fa.bytes, offset)
      [] valueSizeInBytes = 2 -> GetUint16(fa.bytes, offset, fa.littleEndian)
      [] valueSizeInBytes = 4 -> GetUint32(fa.bytes, offset, fa.littleEndian)
      [] OTHER -> 0

RECURSIVE SumOf(_, _)
SumOf(sizes, n) == IF n = 0 THEN 0 ELSE sizes[n] + SumOf(sizes, n - 1)

\* the elements a load(startAddress) makes one after the other: element i is
\* read at curOff, which the elements before it advanced by their sizes
Elements(fa, startAddress, sizes) ==
    [i \in DOMAIN sizes |-> ELFElement(fa, startAddress + SumOf(sizes, i - 1), sizes[i])]

\* one of the constructors threw
Threw(elements) == \E i \in DOMAIN elements : elements[i] = RangeError

\* ELFHeader.load reads E_ident at offsets 0 to 9, then from offset 16:
\* E_type, E_machine, E_version, E_Entry, E_PhOff, E_ShOff, E_Flags, E_Ehsize,
\* E_Phentsize, E_Phnum, E_Shentsize, E_Shnum, E_Shstrndx
HeaderSizes == <<2, 2, 4, 4, 4, 4, 4, 2, 2, 2, 2, 2, 2>>

\* ELFProgramHeaderTable.load: P_Type, P_Offset, P_VAddr, P_PAddr, P_FileSz,
\* P_MemSz, P_Flags, P_Align
ProgramHeaderSizes == <<4, 4, 4, 4, 4, 4, 4, 4>>

\* ELFSectionHeaderTable.load: Sh_Name, Sh_Type, Sh_Flags, Sh_Addr, Sh_Offset,
\* Sh_Size, Sh_Link, Sh_Info, Sh_Addralign, Sh_Entsize
SectionHeaderSizes == <<4, 4, 4, 4, 4, 4, 4, 4, 4, 4>>

\* ELFSymbolTableEntry.load: St_name, St_value, St_size, St_info, St_other,
\* St_shndx
SymbolSizes == <<4, 4, 4, 1, 1, 2>>

MinHeaderLength == 52
IdentEnd == 16
SHT_SYMTAB == 2
SHT_DYNSYM == 11

\* ELFHeader.load(): INVALID_ELF for a buffer shorter than the ELF32 header
ELFHeaderLoad(bytes) ==
    IF Len(bytes) < MinHeaderLength
    THEN [result |-> "INVALID_ELF"]
    ELSE LET fa == [bytes |-> bytes, littleEndian |-> GetUint8(bytes, 5) = 1]
             e == Elements(fa, IdentEnd, HeaderSizes)
         IN [result |-> "OK", littleEndian |-> fa.littleEndian,
             E_PhOff |-> e[5], E_ShOff |-> e[6], E_Phentsize |-> e[9], E_Phnum |-> e[10],
             E_Shentsize |-> e[11], E_Shnum |-> e[12], E_Shstrndx |-> e[13]]

\* the test of loadProgramHeaderTables and loadSectionHeaderTables.  (Their
\* other test, of an offset of 0, is never true of an ELF32 image: value2 is
\* only set for an element of 8 bytes.)
TableExceeds(off, num, entsize, byteLength) == off + num * entsize > byteLength

\* ELFFile.loadProgramHeaderTables(): the result, or "RangeError" when the
\* load of an entry threw
LoadProgramHeaderTables(fa, h) ==
    IF TableExceeds(h.E_PhOff, h.E_Phnum, h.E_Phentsize, Len(fa.bytes))
    THEN "INVALID_ELF"
    ELSE IF \E headerIndex \in 0..(h.E_Phnum - 1) :
               Threw(Elements(fa, h.E_PhOff + headerIndex * h.E_Phentsize, ProgramHeaderSizes))
         THEN "RangeError"
         ELSE "OK"

\* the section headers that loadSectionHeaderTables() loads
SectionHeaderTables(fa, h) ==
    [i \in 1..h.E_Shnum |->
        LET e == Elements(fa, h.E_ShOff + (i - 1) * h.E_Shentsize, SectionHeaderSizes)
        IN [threw |-> Threw(e), Sh_Name |-> e[1], Sh_Type |-> e[2], Sh_Offset |-> e[5],
            Sh_Size |-> e[6], Sh_Link |-> e[7], Sh_Entsize |-> e[10]]]

\* ELFFile.loadSectionHeaderTables()
LoadSectionHeaderTables(fa, h) ==
    IF TableExceeds(h.E_ShOff, h.E_Shnum, h.E_Shentsize, Len(fa.bytes))
    THEN "INVALID_ELF"
    ELSE LET tables == SectionHeaderTables(fa, h)
         IN IF \E i \in DOMAIN tables : tables[i].threw THEN "RangeError" ELSE "OK"

\* how often the loop of ELFSymbolTable.load runs: for (i = 0; i < size /
\* entsize; i++), a division of two numbers; -1: the loop does not end
NumOfEntrys(size, entsize) ==
    IF entsize = 0 THEN (IF size = 0 THEN 0 ELSE -1)
    ELSE (size + entsize - 1) \div entsize

\* ELFSymbolTable.load() for the section header sh
SymbolTableLoad(fa, sh) ==
    LET n == NumOfEntrys(sh.Sh_Size, sh.Sh_Entsize)
        first == Elements(fa, sh.Sh_Offset, SymbolSizes)
        entries == [i \in 1..n |->
                       Elements(fa, sh.Sh_Offset + (i - 1) * sh.Sh_Entsize, SymbolSizes)]
    IN IF n = -1
       THEN [result |-> IF Threw(first) THEN "RangeError" ELSE "never returns",
             sh |-> sh, symTabEntries |-> <<>>]
       ELSE IF \E i \in DOMAIN entries : Threw(entries[i])
            THEN [result |-> "RangeError", sh |-> sh, symTabEntries |-> <<>>]
            ELSE [result |-> "OK", sh |-> sh,
                  symTabEntries |-> [i \in DOMAIN entries |->
                      [St_name |-> entries[i][1], St_value |-> entries[i][2],
                       St_size |-> entries[i][3]]]]

\* the tables ELFFile.loadSymbolTables() loads, in section order
SymbolTables(fa, sections) ==
    LET symSections == SelectSeq(sections,
                           LAMBDA sh : sh.Sh_Type = SHT_SYMTAB \/ sh.Sh_Type = SHT_DYNSYM)
    IN [k \in DOMAIN symSections |-> SymbolTableLoad(fa, symSections[k])]

\* ELFFile.loadSymbolTables(): it returns OK, unless the load of a table threw
\* or does not end
LoadSymbolTables(tables) ==
    IF \E k \in DOMAIN tables :
          /\ tables[k].result # "OK"
          /\ \A j \in 1..(k - 1) : tables[j].result = "OK"
    THEN LET k == CHOOSE k \in DOMAIN tables :
                     /\ tables[k].result # "OK"
                     /\ \A j \in 1..(k - 1) : tables[j].result = "OK"
         IN tables[k].result
    ELSE "OK"

SHT_NOTE == 7

\* 0x18: the bytes the loop of ELFNoteTable.load wants left in the section
MinNoteRecord == 24

\* the elements at the head of a note record: namesz, descsz, type
NoteSizes == <<4, 4, 4>>

\* curOff after while ((paddingVal & 0x03) != 0) { curOff++; paddingVal++; }
\* with paddingVal starting at size
Padded(curOff, size) == curOff + ((4 - (size % 4)) % 4)

\* the for loop over the description, from curOff on: every byte is read
\* with getUint8(curOff) unless curOff > byteLength, which sets the result
\* and leaves the for loop only; getUint8(byteLength) throws
Description(fa, curOff, descsz) ==
    IF curOff > Len(fa.bytes) THEN [result |-> "INVALID_ELF", curOff |-> curOff]
    ELSE IF curOff + descsz > Len(fa.bytes) THEN [result |-> "RangeError", curOff |-> curOff]
    ELSE [result |-> "OK", curOff |-> curOff + descsz]

\* ELFNoteTable.load() for the section header sh, from the record at curOff
\* on; result and n are the result so far and the entries pushed so far
RECURSIVE NoteTableLoad(_, _, _, _, _)
NoteTableLoad(fa, sh, curOff, result, n) ==
    IF curOff + MinNoteRecord > sh.Sh_Offset + sh.Sh_Size
    THEN [result |-> result, noteTabEntries |-> n]
    ELSE The({
        IF Threw(e) THEN [result |-> "RangeError", noteTabEntries |-> n]
        ELSE LET namesz == e[1]
                 descsz == e[2]
                 name == curOff + SumOf(NoteSizes, Len(NoteSizes))
             IN IF namesz > 0 /\ name + namesz > Len(fa.bytes)
                THEN [result |-> "INVALID_ELF", noteTabEntries |-> n]
                ELSE LET desc == IF namesz > 0 THEN Padded(name + namesz, namesz) ELSE name
                         d == Description(fa, desc, descsz)
                     IN IF descsz = 0
                        THEN NoteTableLoad(fa, sh, desc, result, n + 1)
                        ELSE IF d.result = "RangeError"
                        THEN [result |-> "RangeError", noteTabEntries |-> n]
                        ELSE NoteTableLoad(fa, sh, Padded(d.curOff, descsz),
                                           IF d.result = "OK" THEN result ELSE d.result,
                                           n + 1) :
        e \in {Elements(fa, curOff, NoteSizes)} })

\* the tables ELFFile.loadNoteTables() loads, in section order
NoteTables(fa, sections) ==
    LET noteSections == SelectSeq(sections, LAMBDA sh : sh.Sh_Type = SHT_NOTE)
    IN [k \in DOMAIN noteSections |->
           NoteTableLoad(fa, noteSections[k], noteSections[k].Sh_Offset, "OK", 0)]

\* ELFFile.loadNoteTables(): the result of the first table whose load did
\* not return OK, or that threw
LoadNoteTables(tables) ==
    IF \E k \in DOMAIN tables : tables[k].result # "OK"
    THEN tables[CHOOSE k \in DOMAIN tables :
                   /\ tables[k].result # "OK"
                   /\ \A j \in 1..(k - 1) : tables[j].result = "OK"].result
    ELSE "OK"

NoTables == [elfSectionHeaderTables |-> <<>>, elfSymbolTables |-> <<>>]

\* ELFFile.load(): each step is taken if the one before returned OK.  The
\* result is what load returns, or "RangeError" (it threw), or "never returns".
ELFFileLoad(bytes) ==
    The({ IF h.result # "OK" THEN [result |-> h.result] @@ NoTables
          ELSE The({ IF LoadProgramHeaderTables(fa, h) # "OK"
                     THEN [result |-> LoadProgramHeaderTables(fa, h), elfHeader |-> h]
                              @@ NoTables
                     ELSE IF LoadSectionHeaderTables(fa, h) # "OK"
                     THEN [result |-> LoadSectionHeaderTables(fa, h), elfHeader |-> h]
                              @@ NoTables
                     ELSE The({ The({ [result |->
                                           IF LoadSymbolTables(tables) # "OK"
                                           THEN LoadSymbolTables(tables)
                                           ELSE LoadNoteTables(NoteTables(fa, sections)),
                                       elfHeader |-> h,
                                       elfSectionHeaderTables |-> sections,
                                       elfSymbolTables |->
                                           SelectSeq(tables, LAMBDA t : t.result = "OK")] :
                                      tables \in {SymbolTables(fa, sections)} }) :
                                sections \in {SectionHeaderTables(fa, h)} }) :
                     fa \in {[bytes |-> bytes, littleEndian |-> h.littleEndian]} }) :
          h \in {ELFHeaderLoad(bytes)} })

\* String.fromCharCode, for the codes the names of the images are written in
FromCharCode(code) ==
    CASE code = 97 -> "a"
      [] code = 98 -> "b"
      [] code = 120 -> "x"
      [] OTHER -> "?"

\* ELFFileAccess.ReadByteString(strStartOffset, strMaxLength)
RECURSIVE ReadBytes(_, _, _)
ReadBytes(bytes, offset, length) ==
    IF length <= 0 THEN ""
    ELSE FromCharCode(GetUint8(bytes, offset)) \o ReadBytes(bytes, offset + 1, length - 1)

ReadByteString(bytes, strStartOffset, strMaxLength) ==
    LET ends == {i \in 0..(strMaxLength - 1) :
                    \/ strStartOffset + i >= Len(bytes)
                    \/ GetUint8(bytes, strStartOffset + i) = 0}
        length == IF ends = {} THEN strMaxLength
                  ELSE CHOOSE i \in ends : \A j \in ends : i <= j
    IN ReadBytes(bytes, strStartOffset, length)

\* ELFSymbolTableEntry.getDescription_StName()
GetDescription_StName(bytes, elf, symTab, entry) ==
    IF entry.St_name # 0 /\ symTab.sh.Sh_Link < elf.elfHeader.E_Shnum
    THEN LET strTab == elf.elfSectionHeaderTables[symTab.sh.Sh_Link + 1]
         IN ReadByteString(bytes, strTab.Sh_Offset + entry.St_name,
                           strTab.Sh_Size - entry.St_name)
    ELSE ""

\* (mutant) the string is read up to its byte 0 or the end of the buffer,
\* whatever the maximal length
ByteStringReadsToNull(bytes, strStartOffset, strMaxLength) ==
    {strStartOffset + i : i \in
        {i \in 0..(Len(bytes) - strStartOffset - 1) :
            \A j \in 0..(i - 1) : GetUint8(bytes, strStartOffset + j) # 0}}

\* the offsets that ReadByteString(strStartOffset, strMaxLength) gives to
\* getUint8: its first loop reads on until the maximal length, the end of the
\* buffer or a byte 0; its second loop reads the bytes before that again
ByteStringReads(bytes, strStartOffset, strMaxLength) ==
    {strStartOffset + i : i \in
        {i \in 0..(strMaxLength - 1) :
            /\ strStartOffset + i < Len(bytes)
            /\ \A j \in 0..(i - 1) : GetUint8(bytes, strStartOffset + j) # 0}}

\* the offsets read by getDescription_Name() of the section header sh: none
\* for E_Shstrndx 0, and none when elfSectionHeaderTables[E_Shstrndx] is
\* undefined and reading its Sh_Offset throws a TypeError
NameReads(bytes, elf, sh) ==
    IF elf.elfHeader.E_Shstrndx # 0
          /\ elf.elfHeader.E_Shstrndx + 1 \in DOMAIN elf.elfSectionHeaderTables
    THEN LET strSec == elf.elfSectionHeaderTables[elf.elfHeader.E_Shstrndx + 1]
             strStartOffset == strSec.Sh_Offset + sh.Sh_Name
         IN ByteStringReads(bytes, strStartOffset,
                            strSec.Sh_Offset + strSec.Sh_Size - strStartOffset)
    ELSE {}

\* the offsets read by getDescription_StName() of an entry of symTab
StNameReads(bytes, elf, symTab, entry) ==
    IF entry.St_name # 0 /\ symTab.sh.Sh_Link < elf.elfHeader.E_Shnum
    THEN LET strTab == elf.elfSectionHeaderTables[symTab.sh.Sh_Link + 1]
             secNameStringFileOffset == strTab.Sh_Offset + entry.St_name
         IN ByteStringReads(bytes, secNameStringFileOffset,
                            strTab.Sh_Offset + strTab.Sh_Size - secNameStringFileOffset)
    ELSE {}

\* this._symbols after the loop of processElfFile over the entries
RECURSIVE AddSymbols(_, _, _, _, _)
AddSymbols(syms, bytes, elf, symTab, i) ==
    IF i > Len(symTab.symTabEntries) THEN syms
    ELSE LET entry == symTab.symTabEntries[i]
             name == GetDescription_StName(bytes, elf, symTab, entry)
             symbol == [name |-> name, address |-> entry.St_value,
                        length |-> entry.St_size]
         IN AddSymbols([n \in DOMAIN syms \cup {name} |->
                           IF n = name THEN symbol ELSE syms[n]],
                       bytes, elf, symTab, i + 1)

\* processElfFile(elfPath) for a file that holds bytes: how it ends ("OK",
\* "RangeError" thrown by the load, "TypeError" thrown for elfSymbolTables[0] of
\* an image without symbol table, "never returns") and _symbols then.  The
\* result of elfFile.load() is not looked at.
ProcessElfFile(syms, bytes) ==
    The({ IF elf.result \in {"RangeError", "never returns"}
          THEN [ended |-> elf.result, load |-> elf.result, symbols |-> syms]
          ELSE IF elf.elfSymbolTables = <<>>
          THEN [ended |-> "TypeError", load |-> elf.result, symbols |-> syms]
          ELSE [ended |-> "OK", load |-> elf.result,
                symbols |-> AddSymbols(syms, bytes, elf, elf.elfSymbolTables[1], 1)] :
          elf \in {ELFFileLoad(bytes)} })

-----------------------------------------------------------------------------
(* The files that are read: a little-endian ELF32 image made of the header,
   a symbol table, its string table and the headers of three sections (the
   null section, the symbol table, the string table), and the same image
   with a field of the header or of the symbol table's section header
   changed, or cut short. *)

U16(v) == <<v % 256, v \div 256>>

U32(v) == <<v % 256, (v \div 256) % 256, (v \div 65536) % 256, v \div 16777216>>

Zeros(n) == [i \in 1..n |-> 0]

RECURSIVE Flatten(_)
Flatten(seqs) == IF seqs = <<>> THEN <<>> ELSE Head(seqs) \o Flatten(Tail(seqs))

\* String.prototype.charCodeAt for the characters of the names
CharCode(c) == CASE c = "a" -> 97 [] c = "b" -> 98 [] c = "x" -> 120

\* the string table: a 0, then every name followed by a 0
StringTable(syms) ==
    <<0>> \o Flatten([i \in DOMAIN syms |->
                         [k \in DOMAIN syms[i].name |-> CharCode(syms[i].name[k])] \o <<0>>])

NameOffset(syms, i) == 1 + SumOf([j \in DOMAIN syms |-> Len(syms[j].name) + 1], i - 1)

\* the symbol table: st_name, st_value, st_size, st_info, st_other, st_shndx
SymbolTable(syms) ==
    Flatten([i \in DOMAIN syms |->
                U32(NameOffset(syms, i)) \o U32(syms[i].value) \o U32(syms[i].size)
                   \o <<0, 0>> \o U16(0)])

SectionHeader(type, offset, size, link, entsize) ==
    U32(0) \o U32(type) \o U32(0) \o U32(0) \o U32(offset) \o U32(size) \o U32(link)
       \o U32(0) \o U32(0) \o U32(entsize)

\* where the parts of the image are
SymbolTableOffset == MinHeaderLength
StringTableOffset(syms) == SymbolTableOffset + Len(SymbolTable(syms))
SectionHeadersOffset(syms) == StringTableOffset(syms) + Len(StringTable(syms))
FullLength(syms) ==
    SectionHeadersOffset(syms) + 3 * SumOf(SectionHeaderSizes, Len(SectionHeaderSizes))

\* what the header and the section header of the symbol table declare when
\* the image is well-formed, and the length of the file
WellFormed(syms) ==
    [phoff |-> 0, phnum |-> 0, phentsize |-> SumOf(ProgramHeaderSizes, Len(ProgramHeaderSizes)),
     shoff |-> SectionHeadersOffset(syms), shnum |-> 3,
     shentsize |-> SumOf(SectionHeaderSizes, Len(SectionHeaderSizes)),
     symoff |-> SymbolTableOffset, symsize |-> Len(SymbolTable(syms)),
     syment |-> SumOf(SymbolSizes, Len(SymbolSizes)),
     length |-> FullLength(syms)]

\* The files with a note section: the header, the headers of four sections
\* (the null section, the symbol table, the note section, the string table),
\* the symbol table, one note record with 8 bytes for its name and 4 for its
\* description, and the string table at the end of the file.
NoteSymbolTableOffset ==
    MinHeaderLength + 4 * SumOf(SectionHeaderSizes, Len(SectionHeaderSizes))
NoteOffset == NoteSymbolTableOffset + SumOf(SymbolSizes, Len(SymbolSizes))
NoteNameOffset == NoteOffset + SumOf(NoteSizes, Len(NoteSizes))

\* the record: namesz, descsz, type, the name "ab" twice, the description
NoteRecord(namesz, descsz) ==
    U32(namesz) \o U32(descsz) \o U32(1) \o <<97, 98, 0, 0, 97, 98, 0, 0>> \o <<1, 2, 3, 4>>

NoteStringTableOffset == NoteOffset + Len(NoteRecord(0, 0))
NoteFullLength(syms) == NoteStringTableOffset + Len(StringTable(syms))

\* a section header with the offset of its name
Named(name, header) == [header EXCEPT ![1] = name]

\* the bytes of the file with the declarations p: the sizes its note record
\* declares, the size of the note section and of the string table, st_name
\* of the symbol, sh_link of the symbol table, e_shstrndx, sh_name of the
\* sections, and the length of the file
NoteImage(program) ==
    LET p == program.p
        sym == program.syms[1]
        full == <<127, 69, 76, 70, 1, 1, 1, 0>> \o Zeros(8)
                  \o U16(2) \o U16(8) \o U32(1) \o U32(0) \o U32(0) \o U32(MinHeaderLength)
                  \o U32(0) \o U16(MinHeaderLength)
                  \o U16(SumOf(ProgramHeaderSizes, Len(ProgramHeaderSizes))) \o U16(0)
                  \o U16(SumOf(SectionHeaderSizes, Len(SectionHeaderSizes))) \o U16(4)
                  \o U16(p.shstrndx)
                  \o SectionHeader(0, 0, 0, 0, 0)
                  \o Named(p.shname, SectionHeader(SHT_SYMTAB, NoteSymbolTableOffset,
                                                   SumOf(SymbolSizes, Len(SymbolSizes)), p.link,
                                                   SumOf(SymbolSizes, Len(SymbolSizes))))
                  \o Named(p.shname, SectionHeader(SHT_NOTE, NoteOffset, p.notesize, 0, 0))
                  \o Named(p.shname, SectionHeader(3, NoteStringTableOffset, p.strsize, 0, 0))
                  \o U32(p.stname) \o U32(sym.value) \o U32(sym.size) \o <<0, 0>> \o U16(0)
                  \o NoteRecord(p.namesz, p.descsz)
                  \o StringTable(program.syms)
    IN SubSeq(full, 1, p.length)

\* the bytes of the file made from the symbols syms with the declarations p
Image(program) ==
    IF "notesize" \in DOMAIN program.p THEN NoteImage(program) ELSE
    LET syms == program.syms
        p == program.p
        full == <<127, 69, 76, 70, 1, 1, 1, 0>> \o Zeros(8)
                  \o U16(2) \o U16(8) \o U32(1) \o U32(0) \o U32(p.phoff) \o U32(p.shoff)
                  \o U32(0) \o U16(MinHeaderLength) \o U16(p.phentsize) \o U16(p.phnum)
                  \o U16(p.shentsize) \o U16(p.shnum) \o U16(0)
                  \o SymbolTable(syms) \o StringTable(syms)
                  \o SectionHeader(0, 0, 0, 0, 0)
                  \o SectionHeader(SHT_SYMTAB, p.symoff, p.symsize, 2, p.syment)
                  \o SectionHeader(3, StringTableOffset(syms), Len(StringTable(syms)), 0, 0)
    IN SubSeq(full, 1, p.length)

\* the symbols: an address of more than one byte with a length, a length of
\* more than one byte with an address, and a name of two characters
Syms ==
    { [name |-> <<"x">>, value |-> 16909060, size |-> 4],
      [name |-> <<"a">>, value |-> 7, size |-> 258],
      [name |-> <<"a", "b">>, value |-> 67305985, size |-> 1] }

SymLists == UNION { [1..n -> Syms] : n \in 0..MaxSyms }

\* the declarations of the program headers: none; one entry inside the file;
\* one entry of 8 bytes that ends with the file; one entry behind the file
ProgramHeaderChoices(w) ==
    { <<w.phoff, w.phnum, w.phentsize>>, <<MinHeaderLength, 1, w.phentsize>>,
      <<w.length - 8, 1, 8>>, <<w.length, 1, w.phentsize>> }

\* the declarations of the section headers: as they are; one more; one byte
\* further; none; the null section only; entries one byte longer
SectionHeaderChoices(w) ==
    { <<w.shoff, w.shnum, w.shentsize>>, <<w.shoff, w.shnum + 1, w.shentsize>>,
      <<w.shoff + 1, w.shnum, w.shentsize>>, <<w.shoff, 0, w.shentsize>>,
      <<w.shoff, 1, w.shentsize>>, <<w.shoff, w.shnum, w.shentsize + 1>> }

\* the declarations of the symbol table: as it is; behind the file; one byte
\* more; entries of size 0; entries of half the size; twenty entries more
SymbolTableChoices(w) ==
    { <<w.symoff, w.symsize, w.syment>>, <<w.length, w.syment, w.syment>>,
      <<w.symoff, w.symsize + 1, w.syment>>, <<w.symoff, w.symsize, 0>>,
      <<w.symoff, w.symsize, w.syment \div 2>>,
      <<w.symoff, w.symsize + 20 * w.syment, w.syment>> }

Declarations(syms) ==
    LET w == WellFormed(syms)
    IN { [w EXCEPT !.phoff = ph[1], !.phnum = ph[2], !.phentsize = ph[3],
                   !.shoff = sh[1], !.shnum = sh[2], !.shentsize = sh[3]] :
            ph \in ProgramHeaderChoices(w), sh \in SectionHeaderChoices(w) }
       \cup { [w EXCEPT !.symoff = st[1], !.symsize = st[2], !.syment = st[3]] :
                 st \in SymbolTableChoices(w) }
       \cup { [w EXCEPT !.length = l] : l \in {w.length - 1, MinHeaderLength - 1} }

Programs == UNION { { [syms |-> syms, p |-> p] : p \in Declarations(syms) } : syms \in SymLists }

\* the program of the sessions: one symbol, x
ElfSymbols == << [name |-> <<"x">>, value |-> 16909060, size |-> 4] >>

Program == [syms |-> ElfSymbols, p |-> WellFormed(ElfSymbols)]

\* the file with a note section as it is made: the name "ab" and its 0, a
\* description of 2 bytes, the symbol x
NoteWellFormed ==
    [namesz |-> 3, descsz |-> 2, notesize |-> MinNoteRecord, stname |-> 1, link |-> 3,
     strsize |-> Len(StringTable(ElfSymbols)), shstrndx |-> 3, shname |-> 1,
     length |-> NoteFullLength(ElfSymbols)]

\* the sizes a record declares: none, as they are, up to the end of a file cut
\* short (with and without padding), more than any file has
NameSizes == {0, 3, 10, 12, 200}
DescSizes == {0, 1, 2, 200}

\* the file whole, without the last byte of its string table, without its
\* string table, and without the last two bytes of the note as well
NoteLengths ==
    { NoteFullLength(ElfSymbols), NoteFullLength(ElfSymbols) - 1, NoteStringTableOffset,
      NoteStringTableOffset - 2 }

\* the declarations the names are resolved with: st_name (the name, its end,
\* behind the table), sh_link and e_shstrndx (the string table, the null
\* section, no section), the size of the string table (as it is, one byte
\* less, more than the file has), sh_name
NameDeclarations ==
    { [NoteWellFormed EXCEPT !.stname = n[1], !.link = n[2], !.strsize = n[3],
                             !.shstrndx = n[4], !.shname = n[5], !.length = n[6]] :
         n \in {1, 2, 7} \X {3, 0, 4} \X {3, 2, 40} \X {3, 0, 4} \X {1, 2}
                 \X {NoteFullLength(ElfSymbols), NoteFullLength(ElfSymbols) - 1} }

NoteDeclarations ==
    { [NoteWellFormed EXCEPT !.namesz = n[1], !.descsz = n[2], !.notesize = n[3],
                             !.length = n[4]] :
         n \in NameSizes \X DescSizes \X {MinNoteRecord, 4 * MinNoteRecord} \X NoteLengths }

NotePrograms == { [syms |-> ElfSymbols, p |-> p] : p \in NoteDeclarations \cup NameDeclarations }

\* a file that is too short to be an ELF image
NoElf == [syms |-> <<>>, p |-> [WellFormed(<<>>) EXCEPT !.length = MinHeaderLength - 1]]

-----------------------------------------------------------------------------
(* start(args).  _sourceFile is never assigned, so
   verifyBreakpoints(this._sourceFile) finds no list.  args.program is the
   file as it was made; toolConfiguration is the number of its lines. *)

NotLoaded == [ended |-> "", load |-> ""]

\* calls with the record of call c set
SetCall(c, call) ==
    [i \in 1..(IF c > Len(calls) THEN c ELSE Len(calls)) |-> IF i = c THEN call ELSE calls[i]]

\* start(): await this.executeRawCommand(`Set ${toolConfig}\n`), up to its await
StartSetCommand(c, call) ==
    LET r == ExecuteRawCommand(Runtime, "Set", 0, c, 0)
    IN /\ Commit(r)
       /\ calls' = SetCall(c, [call EXCEPT !.pc = "set", !.exec = Len(r.execs), !.left = @ - 1])
       /\ UNCHANGED symbols

\* start(): await this.processElfFile(args.program) and, when that returned,
\* await this.executeRawCommand(`Device ...`), up to its await.  When
\* processElfFile throws, start() is rejected; when it does not return,
\* nothing else runs.
StartProcessElf(c, call) ==
    \E bytes \in {Image(call.program)} : \E elf \in {ProcessElfFile(symbols, bytes)} :
    LET loaded == [call EXCEPT !.elf = [ended |-> elf.ended, load |-> elf.load]]
    IN /\ symbols' = elf.symbols
       /\ IF elf.ended = "OK"
          THEN LET r == ExecuteRawCommand(Runtime, "Device", 0, c, 0)
               IN /\ Commit(r)
                  /\ calls' = SetCall(c, [loaded EXCEPT !.pc = "device", !.exec = Len(r.execs)])
          ELSE /\ calls' = SetCall(c, [loaded EXCEPT !.pc =
                                IF elf.ended = "never returns" THEN "never returns"
                                ELSE "rejected"])
               /\ UNCHANGED <<mdbThread, spawned, stdin, waits, execs, jobs, q, heard>>

\* start(args) up to its first await on a command
Start(stopOnEntry, toolConfiguration, program) ==
    /\ Quiescent
    /\ Len(calls) < scen.maxCalls
    /\ LET call == [op |-> "start", pc |-> "", exec |-> 0, collect |-> 0,
                    stopOnEntry |-> stopOnEntry, program |-> program,
                    toolConfiguration |-> toolConfiguration, left |-> toolConfiguration,
                    elf |-> NotLoaded]
       IN IF toolConfiguration > 0
          THEN StartSetCommand(Len(calls) + 1, call)
          ELSE StartProcessElf(Len(calls) + 1, call)
    /\ UNCHANGED <<bpVars, submitted, mdbConfig, outVars, pushed, runs, scen>>

\* start() after await executeRawCommand(`Set ...`): the next line, or on to
\* processElfFile
StartSet(c) ==
    /\ calls[c].pc = "set"
    /\ ExecState(waits, execs[calls[c].exec]) # "pending"
    /\ IF ExecState(waits, execs[calls[c].exec]) = "fail"
       THEN /\ calls' = [calls EXCEPT ![c].pc = "rejected"]
            /\ UNCHANGED <<mdbThread, spawned, stdin, waits, execs, jobs, q, heard, symbols>>
       ELSE IF calls[c].left > 0
            THEN StartSetCommand(c, calls[c])
            ELSE StartProcessElf(c, calls[c])
    /\ UNCHANGED <<bpVars, submitted, mdbConfig, outVars, pushed, runs, scen>>

\* (mutant) Hwtool is sent however the Device command ended
StartHwtoolAnyway(c) ==
    /\ calls[c].pc = "device"
    /\ ExecState(waits, execs[calls[c].exec]) # "pending"
    /\ LET r == ExecuteRawCommand(Runtime, "Hwtool", 0, c, 0)
       IN /\ Commit(r)
          /\ calls' = [calls EXCEPT ![c] = [@ EXCEPT !.pc = "hwtool", !.exec = Len(r.execs)]]
    /\ UNCHANGED <<bpVars, submitted, mdbConfig, outVars, symbols, pushed, runs, scen>>

\* start() after await executeRawCommand(`Device ...`)
StartHwtool(c) ==
    /\ calls[c].pc = "device"
    /\ ExecState(waits, execs[calls[c].exec]) # "pending"
    /\ IF ExecState(waits, execs[calls[c].exec]) = "fail"
       THEN /\ calls' = [calls EXCEPT ![c].pc = "rejected"]
            /\ UNCHANGED <<mdbThread, spawned, stdin, waits, execs, jobs, q, heard>>
       ELSE LET r == ExecuteRawCommand(Runtime, "Hwtool", 0, c, 0)
            IN /\ Commit(r)
               /\ calls' = [calls EXCEPT ![c] = [@ EXCEPT !.pc = "hwtool",
                                                          !.exec = Len(r.execs)]]
    /\ UNCHANGED <<bpVars, submitted, mdbConfig, outVars, symbols, pushed, runs, scen>>

\* start() after await executeRawCommand(`Hwtool ...`)
StartProgram(c) ==
    /\ calls[c].pc = "hwtool"
    /\ ExecState(waits, execs[calls[c].exec]) # "pending"
    /\ IF ExecState(waits, execs[calls[c].exec]) = "fail"
       THEN /\ calls' = [calls EXCEPT ![c].pc = "rejected"]
            /\ UNCHANGED <<mdbThread, spawned, stdin, waits, execs, jobs, q, heard>>
       ELSE LET r == ExecuteAndWait(Runtime, "Program", 0, c)
            IN /\ Commit(r)
               /\ calls' = [calls EXCEPT ![c] = [@ EXCEPT !.pc = "program",
                                                          !.exec = Len(r.execs)]]
    /\ UNCHANGED <<bpVars, submitted, mdbConfig, outVars, symbols, pushed, runs, scen>>

\* start() after await executeAndWait(`Program ...`, 'Program succeeded'):
\* this.step('stopOnEntry') or this.continue()
StartRun(c) ==
    /\ calls[c].pc = "program"
    /\ ExecState(waits, execs[calls[c].exec]) # "pending"
    /\ IF ExecState(waits, execs[calls[c].exec]) = "fail"
       THEN /\ calls' = [calls EXCEPT ![c].pc = "rejected"]
            /\ UNCHANGED <<mdbThread, spawned, stdin, waits, execs, jobs, q, heard,
                           pushed, runs, submitted>>
       ELSE /\ calls' = [calls EXCEPT ![c].pc = "returned"]
            /\ runs' = runs + 1
            /\ IF calls[c].stopOnEntry
               THEN /\ Commit(QStart(Runtime, TRUE))
                    /\ UNCHANGED <<pushed, submitted>>
               ELSE /\ Commit(QStart([Runtime EXCEPT
                                         !.jobs = Append(@, [cmd |-> "Run", n |-> pushed + 1])],
                                     TRUE))
                    /\ pushed' = pushed + 1
                    /\ submitted' = Append(submitted, Submission(0, NoCallback))
    /\ UNCHANGED <<bpVars, mdbConfig, outVars, symbols, scen>>

-----------------------------------------------------------------------------
(* What is read from the subprocess's output: the stop notification that
   parseStdOutMessage assembles and the frames that stack() parses. *)

StopAtMarker == << "s", "t", "o", "p", " ", "a", "t" >>

AddressKey == << "a", "d", "d", "r", "e", "s", "s", ":" >>
FileKey == << "f", "i", "l", "e", ":" >>
SourceLineKey == << "s", "o", "u", "r", "c", "e", " ", "l", "i", "n", "e", ":" >>

AddressPrefix == AddressKey \o HexPrefix

\* a match begins with the first character of one of the keys
KeyInitials == {AddressKey[1], FileKey[1], SourceLineKey[1]}

\* the characters that address:(0x.{8}) takes after 0x
AddressChars == 8

\* the matches a notification needs before it is dispatched
RequiredMatches == 3

\* String.prototype.replace(/\n/gi, '')
RemoveNewlines(text) ==
    LET kept == SelectSeq(text, LAMBDA ch : ch # "LF")
        left == [i \in DOMAIN kept |-> IF kept[i] = "CRLF" THEN "CR" ELSE kept[i]]
    IN SubSeq(left, 1, Len(left))

\* the length of the match of /address:(0x.{8})|file:(.+)|source line:(\d+)/
\* that begins at text[i]; 0 when there is none
MatchLength(text, i) ==
    IF text[i] \notin KeyInitials THEN 0
    ELSE IF /\ StartsWith(text, i, AddressPrefix)
            /\ RunExcept(text, i + Len(AddressPrefix), LineTerminator) >= AddressChars
    THEN Len(AddressPrefix) + AddressChars
    ELSE IF /\ StartsWith(text, i, FileKey)
            /\ RunExcept(text, i + Len(FileKey), LineTerminator) >= 1
    THEN Len(FileKey) + RunExcept(text, i + Len(FileKey), LineTerminator)
    ELSE IF /\ StartsWith(text, i, SourceLineKey)
            /\ Run(text, i + Len(SourceLineKey), Digits) >= 1
    THEN Len(SourceLineKey) + Run(text, i + Len(SourceLineKey), Digits)
    ELSE 0

\* String.prototype.match with the flag g: the matches from left to right,
\* each search beginning where the match before it ended.  (starts holds the
\* positions at which a match could begin.)
RECURSIVE MatchesFrom(_, _, _)
MatchesFrom(text, starts, i) ==
    LET rest == {j \in starts : j >= i}
        first == CHOOSE j \in rest : \A k \in rest : j <= k
        n == MatchLength(text, first)
    IN IF rest = {} THEN <<>>
       ELSE <<SubSeq(text, first, first + n - 1)>> \o MatchesFrom(text, starts, first + n)

MatchAll(text) == MatchesFrom(text, {i \in DOMAIN text : MatchLength(text, i) > 0}, 1)

\* match.split(':'), and what is kept of it as key and value
KeyAndValue(match) ==
    LET parts == Split(match, ":")
    IN IF Len(parts) <= 2 THEN parts
       ELSE <<parts[1], Join(SubSeq(parts, 3, Len(parts)), ":")>>

\* key.replace(/ /gi, '_')
SanitizedKey(key) == Str([i \in DOMAIN key |-> IF key[i] = " " THEN "_" ELSE key[i]])

NoEventData == [eventType |-> "", address |-> Undefined, file |-> "", line |-> Undefined]

\* the reducer of parseStdOutMessage: a later match of a key replaces an earlier
\* one.  (The pattern matches no key but these three.)
RECURSIVE Collector(_, _)
Collector(collector, pairs) ==
    IF pairs = <<>> THEN collector
    ELSE LET key == SanitizedKey(pairs[1][1])
             value == pairs[1][2]
         IN Collector(CASE key = "source_line" -> [collector EXCEPT !.line = ParseInt(value, 10)]
                        [] key = "address" ->
                              [collector EXCEPT !.address = ConvertHexToNumber(value)]
                        [] key = "file" -> [collector EXCEPT !.file = Str(value)]
                        [] OTHER -> collector,
                      Tail(pairs))

EventData(matches, type) ==
    [Collector(NoEventData, [i \in DOMAIN matches |-> KeyAndValue(matches[i])])
        EXCEPT !.eventType = type]

\* what parseStdOutMessage leaves and dispatches when it has matched the
\* buffer: the event data go to fireEventsForData
Matched(type, text, matches) ==
    IF Len(matches) >= RequiredMatches
    THEN [eventType |-> type, buffering |-> FALSE, buffer |-> <<>>,
          dispatched |-> <<EventData(matches, type)>>]
    ELSE [eventType |-> type, buffering |-> TRUE, buffer |-> text, dispatched |-> <<>>]

\* parseStdOutMessage(message): the fields it leaves, and the event data it
\* gives to fireEventsForData (none, or one).  (The sets of one element bind
\* the buffer and its matches, so that each is computed once.)
ParseStdOutMessage(type, buffering, buffer, message) ==
    LET stop == Includes(ToLowerCase(message), StopAtMarker)
    IN IF stop \/ buffering
       THEN CHOOSE r \in
                UNION { { Matched(IF stop THEN "STOP_AT" ELSE type, text, matches) :
                             matches \in {MatchAll(clean)} } :
                        text \in {(IF stop THEN message ELSE buffer) \o message},
                        clean \in {RemoveNewlines((IF stop THEN message ELSE buffer)
                                                      \o message)} } : TRUE
       ELSE [eventType |-> type, buffering |-> FALSE, buffer |-> buffer, dispatched |-> <<>>]

\* [a-zA-z0-9_ ]: the range A-z also holds the characters between Z and a (of
\* which the backslash and the backquote stand in no output read here)
NameChars == Range(Alphabet) \cup CapitalLetters \cup Digits \cup {"_", " ", "[", "]", "^"}

FrameSeparator == << " ", " " >>
FrameAt == << " ", "(", ")", " ", "a", "t", " " >>

\* where the parts of /#(\d+)  ([a-zA-z0-9_ ]+) \(\) at (.+):(\d+)/ lie when the
\* match begins at text[s]: the index is the run of digits after '#'; the name
\* is the run of name characters up to the blank before '('; the file ends at
\* the last ':' of the line that a digit follows
FrameParts(text, s) ==
    LET nIndex == Run(text, s + 1, Digits)
        name == s + 1 + nIndex + Len(FrameSeparator)
        nName == Run(text, name, NameChars) - 1
        file == name + nName + Len(FrameAt)
        nRest == RunExcept(text, file, LineTerminator)
        colons == {k \in (file + 1)..(file + nRest - 2) : text[k] = ":" /\ Digit(text[k + 1])}
        colon == CHOOSE k \in colons : \A j \in colons : j <= k
        matched == /\ text[s] = "#"
                   /\ nIndex >= 1
                   /\ StartsWith(text, s + 1 + nIndex, FrameSeparator)
                   /\ nName >= 1
                   /\ StartsWith(text, name + nName, FrameAt)
                   /\ colons # {}
    IN IF matched
       THEN [matched |-> TRUE,
             index |-> SubSeq(text, s + 1, s + nIndex),
             name |-> SubSeq(text, name, name + nName - 1),
             file |-> SubSeq(text, file, colon - 1),
             line |-> SubSeq(text, colon + 1, colon + Run(text, colon + 1, Digits))]
       ELSE [matched |-> FALSE]

\* (mutant) the frame is given the index as its line
StackframeIndexAsLine(parts) ==
    [index |-> ParseInt(parts.index, 10), name |-> Str(parts.name), file |-> Str(parts.file),
     line |-> ParseInt(parts.index, 10)]

\* the MDBStackFrame built from a match
Stackframe(parts) ==
    [index |-> ParseInt(parts.index, 10), name |-> Str(parts.name), file |-> Str(parts.file),
     line |-> ParseInt(parts.line, 10)]

\* rawFrameBuffer.match(...): the leftmost match; no frame when there is none
ParsedFrame(rawFrameBuffer) ==
    LET starts == {s \in DOMAIN rawFrameBuffer : FrameParts(rawFrameBuffer, s).matched}
    IN IF starts = {} THEN <<>>
       ELSE <<Stackframe(FrameParts(rawFrameBuffer,
                                    CHOOSE s \in starts : \A t \in starts : s <= t))>>

RECURSIVE Concat(_)
Concat(seqs) == IF seqs = <<>> THEN <<>> ELSE seqs[1] \o Concat(Tail(seqs))

\* collectedBuffer.split('\r\n').map(...).filter(frame => frame !== null)
ParsedFrames(collectedBuffer) ==
    LET rawFrames == Split(collectedBuffer, "CRLF")
    IN Concat([i \in DOMAIN rawFrames |-> ParsedFrame(rawFrames[i])])

-----------------------------------------------------------------------------
(* The subprocess's output and the clock *)

Listening(ws) == {i \in DOMAIN ws : ws[i].state = "pending" /\ ws[i].attached}

Leaked(ws) == {i \in DOMAIN ws : ws[i].state # "pending" /\ ws[i].attached}

\* a 'data' event of the subprocess's stdout: the listener that guardMDBSetup
\* attached when it spawned the subprocess (parseStdOutMessage), then the
\* listeners of the waits
DataEvent(chunk) ==
    /\ Quiescent
    /\ mdbThread # 0
    /\ LET r == ParseStdOutMessage(eventType, stdoutBuffering, stdoutBuffer, chunk)
       IN /\ eventType' = r.eventType
          /\ stdoutBuffering' = r.buffering
          /\ stdoutBuffer' = r.buffer
          /\ fired' = fired \o r.dispatched
          /\ IF r.dispatched # <<>>
             THEN FireEvents(r.dispatched[1])
             ELSE UNCHANGED <<bpObjs, events>>
    /\ waits' = Emit(waits, chunk)
    /\ heard' = [i \in DOMAIN waits |->
                    IF scen.history /\ i \in Listening(waits)
                    THEN Hear(heard[i], waits[i].pat, chunk, Leaked(waits) # {})
                    ELSE heard[i]]
    /\ UNCHANGED <<breakPoints, breakpointId, told, clearCalls, submitted, mdbConfig, mdbThread,
                   spawned, stdin, execs, jobs, q, calls, symbols, pushed, runs, scen>>

\* the subprocess prints one of the outputs of the scenario
Data(chunk) ==
    /\ \A i \in DOMAIN waits :
          waits[i].attached /\ waits[i].kind = "collect"
             => Len(waits[i].acc) + Len(chunk) <= MaxAcc
    /\ stdoutBuffering => Len(stdoutBuffer) + Len(chunk) <= MaxAcc
    /\ DataEvent(chunk)
    /\ UNCHANGED script

\* the subprocess prints the next k characters of what it has to print
Output(k) ==
    /\ k \in 1..Len(script)
    /\ DataEvent(SubSeq(script, 1, k))
    /\ script' = SubSeq(script, k + 1, Len(script))

\* TickMs milliseconds pass: every running interval timer counts down
Tick ==
    /\ Quiescent
    /\ \E i \in DOMAIN waits : waits[i].timerOn
    /\ waits' = [i \in DOMAIN waits |-> IntervalTick(waits[i], TickMs)]
    /\ UNCHANGED <<bpVars, submitted, mdbConfig, outVars, mdbThread, spawned, stdin, execs, jobs, q, calls,
                   symbols, pushed, runs, heard, scen>>

-----------------------------------------------------------------------------
(* Continuations *)

\* what the subprocess will print for a command it reads, in the scenarios
\* that say it
Response(cmd) ==
    IF "responses" \in DOMAIN scen /\ cmd \in DOMAIN scen.responses
    THEN scen.responses[cmd] ELSE <<>>

\* executeRawCommand after await guardMDBSetup(): write, then waitForStdOut('>')
ExecuteRawCommandWrite(i) ==
    /\ \/ execs[i].raw = "ready"
       \/ execs[i].raw = "guard" /\ waits[execs[i].wr].state = "resolved"
    /\ LET e == execs[i]
           ws == Append(waits, WaitForStdOut(PromptMarker, mdbThread, DefaultTimeout))
       IN /\ stdin' = Append(stdin, [cmd |-> e.cmd, n |-> e.n, owner |-> e.owner,
                                     to |-> mdbThread, queued |-> Len(jobs)])
          /\ waits' = ws
          /\ heard' = Append(heard, NothingHeard)
          /\ execs' = [execs EXCEPT ![i] = [e EXCEPT !.raw = "sent", !.wr = Len(ws),
                                                     !.written = TRUE]]
          /\ script' = script \o Response(e.cmd)
    /\ UNCHANGED <<bpVars, submitted, mdbConfig, stdoutBuffer, stdoutBuffering, eventType, fired,
                   mdbThread, spawned, jobs, q, calls, symbols, pushed, runs, scen>>

\* executeRawCommand returns, or throws what the wait it awaited was rejected with
ExecuteRawCommandSettle(i) ==
    /\ execs[i].raw \in {"guard", "sent"}
    /\ waits[execs[i].wr].state # "pending"
    /\ ~(execs[i].raw = "guard" /\ waits[execs[i].wr].state = "resolved")
    /\ execs' = [execs EXCEPT ![i].raw =
                    IF waits[execs[i].wr].state = "resolved" THEN "ok" ELSE "fail"]
    /\ UNCHANGED <<bpVars, submitted, mdbConfig, outVars, mdbThread, spawned, stdin, waits, jobs, q, calls,
                   symbols, pushed, runs, heard, scen>>

\* (mutant) the first promise to resolve resolves the whole
SettleAll(waiting, n) == {}

\* Promise.all(promises): the promise of command n resolves, the others are awaited
Settle(waiting, n) == waiting \ {n}

\* (mutant) the callback runs however the promise settles
FulfilledOrRejected(state) == TRUE

\* executionPromise.then(onFulfilled): only a resolved promise runs the callback
Fulfilled(state) == state = "ok"

\* executionPromise.then(() => { if (callback) callback(); }) for command n
Callback(n) ==
    LET cb == submitted[n].cb
    IN CASE cb.kind = "verify" ->
              \* verifyBreakpoints: breakpoint.verified = true; sendEvent
              /\ bpObjs' = [bpObjs EXCEPT ![cb.obj].verified = TRUE]
              /\ events' = Append(events, [type |-> "breakpointValidated", obj |-> cb.obj])
              /\ UNCHANGED <<told, calls>>
         [] cb.kind = "cleared" ->
              \* clearBreakPoint: if (callback) callback(bp)
              /\ told' = Append(told, [n |-> n, obj |-> cb.obj])
              /\ UNCHANGED <<bpObjs, events, calls>>
         [] cb.kind = "clearAll" ->
              \* clearBreakpoints: resolve(true) of the promise given to Promise.all
              /\ calls' = [calls EXCEPT ![cb.call].waiting = Settle(@, n)]
              /\ UNCHANGED <<bpObjs, events, told>>
         [] OTHER -> UNCHANGED <<bpObjs, events, told, calls>>

\* the running job's promise settles: its callback if it resolved, then
\* next(null) or next(err || true)
QueueNext ==
    /\ NextRunnable
    /\ Commit(QNext(Runtime, ExecState(waits, execs[q.cur]) = "fail"))
    /\ IF Fulfilled(ExecState(waits, execs[q.cur]))
       THEN Callback(execs[q.cur].n)
       ELSE UNCHANGED <<bpObjs, events, told, calls>>
    /\ UNCHANGED <<breakPoints, breakpointId, clearCalls, submitted, mdbConfig, outVars, symbols,
                   pushed, runs, scen>>

\* stack() after its await
StackReturn(c) ==
    /\ calls[c].pc = "backtrace"
    /\ ExecState(waits, execs[calls[c].exec]) # "pending"
    /\ IF ExecState(waits, execs[calls[c].exec]) = "ok"
       THEN /\ calls' = [calls EXCEPT ![c] =
                            [op |-> "stack", pc |-> "returned", exec |-> @.exec,
                             collect |-> 0, frames |-> ParsedFrames(stdoutBuffer),
                             count |-> Len(ParsedFrames(stdoutBuffer))]]
            /\ stdoutBuffering' = FALSE
       ELSE /\ calls' = [calls EXCEPT ![c].pc = "rejected"]
            /\ UNCHANGED stdoutBuffering
    /\ UNCHANGED <<bpVars, submitted, mdbConfig, stdoutBuffer, eventType, script, fired,
                   mdbThread, spawned, stdin, waits, execs, jobs, q, symbols, pushed, runs,
                   heard, scen>>

\* the address and the length evaluate reads with: those of the symbol, or
\* the address matched in the result of the address-of query and 1
AddressAndLength(symbol, result) ==
    IF symbol = <<>>
    THEN [address |-> ConvertHexToNumber(MatchedAddress(result)), length |-> 1]
    ELSE [address |-> symbol[1].address, length |-> symbol[1].length]

\* evaluate() after the address is known: collectFromStdOut, executeRawCommand('x ...')
EvaluateAddress(c) ==
    /\ calls[c].pc = "address"
    /\ ExecState(waits, execs[calls[c].exec]) # "pending"
    /\ LET symbol == calls[c].existingSymbolInformation
           result == waits[execs[calls[c].exec].wp].acc
       IN IF ExecState(waits, execs[calls[c].exec]) = "fail"
          THEN /\ calls' = [calls EXCEPT ![c].pc = "rejected"]
               /\ UNCHANGED <<mdbThread, spawned, stdin, waits, execs, jobs, q, heard>>
          ELSE IF symbol = <<>> /\ ~Matches(result, AddressOf)
          THEN /\ calls' = [calls EXCEPT ![c].pc = "returned"]
               /\ UNCHANGED <<mdbThread, spawned, stdin, waits, execs, jobs, q, heard>>
          ELSE LET ws == Append(waits, CollectFromStdOut(mdbThread))
                   r == ExecuteRawCommand([Runtime EXCEPT !.waits = ws], "x", 0, c, 0)
                   read == AddressAndLength(symbol, result)
               IN /\ Commit(r)
                  /\ calls' = [calls EXCEPT ![c] =
                                  [op |-> "evaluate", pc |-> "read", exec |-> Len(r.execs),
                                   collect |-> Len(ws),
                                   existingSymbolInformation |-> symbol,
                                   length |-> read.length,
                                   hexAddress |-> ConvertNumberToHex(read.address)]]
    /\ UNCHANGED <<bpVars, submitted, mdbConfig, outVars, symbols, pushed, runs, scen>>

\* evaluate() after await executeRawCommand and await collectedRawOuputPromise
EvaluateRead(c) ==
    /\ calls[c].pc = "read"
    /\ \/ /\ ExecState(waits, execs[calls[c].exec]) = "fail"
          /\ calls' = [calls EXCEPT ![c].pc = "rejected"]
       \/ /\ ExecState(waits, execs[calls[c].exec]) = "ok"
          /\ waits[calls[c].collect].state = "resolved"
          /\ calls' = [calls EXCEPT ![c].pc = "returned"]
    /\ UNCHANGED <<bpVars, submitted, mdbConfig, outVars, mdbThread, spawned, stdin, waits, execs, jobs, q,
                   symbols, pushed, runs, heard, scen>>

-----------------------------------------------------------------------------
(* Specifications *)

Exprs == {"x"}

\* the (normalized) paths and the lines that callers and the subprocess name
Files == {"a.c", "b.c"}
Lines == {10, 20}

InitRuntime ==
    /\ mdbThread = 0
    /\ spawned = 0
    /\ stdin = <<>>
    /\ waits = <<>>
    /\ execs = <<>>
    /\ jobs = <<>>
    /\ q = [pending |-> 0, running |-> FALSE, session |-> 0, cbs |-> 0,
            cur |-> 0, curSession |-> 0]
    /\ calls = <<>>
    /\ symbols = <<>>
    /\ pushed = 0
    /\ runs = 0
    /\ heard = <<>>
    /\ bpObjs = <<>>
    /\ breakPoints = [f \in Files |-> <<>>]
    /\ breakpointId = 1
    /\ submitted = <<>>
    /\ events = <<>>
    /\ told = <<>>
    /\ clearCalls = 0
    /\ stdoutBuffer = <<>>
    /\ stdoutBuffering = FALSE
    /\ eventType = ""
    /\ script = <<>>
    /\ fired = <<>>

\* what vscode.workspace.getConfiguration('mdb-debugger') holds: package.json
\* declares commandTimeout; a user may also set a key that is not declared
Settings == { [commandTimeout |-> DeclaredTimeout], [timeout |-> DeclaredTimeout] }

Get(settings, key) == IF key \in DOMAIN settings THEN settings[key] ELSE Undefined

\* the MDBRuntimeConfig that createDebugAdapterDescriptor builds
CreateDebugAdapterDescriptor(settings) == [timeout |-> Get(settings, "timeout")]

Continuation ==
    \/ \E i \in DOMAIN execs : ExecuteRawCommandWrite(i)
    \/ \E i \in DOMAIN execs : ExecuteRawCommandSettle(i)

CallContinuation ==
    \/ \E c \in DOMAIN calls : StackReturn(c)
    \/ \E c \in DOMAIN calls : EvaluateAddress(c)
    \/ \E c \in DOMAIN calls : EvaluateRead(c)

\* Spec: the command queue.  Breakpoint commands are pushed, continue and step
\* start the queue, the subprocess answers, fails or stays silent.

QueueOutputs == { <<">">>, <<"Run", "ning", ">">>, <<"Breakpoint", ">">>, <<"err">> }

Init ==
    /\ InitRuntime
    /\ mdbConfig = CreateDebugAdapterDescriptor([commandTimeout |-> DeclaredTimeout])
    /\ scen = [outputs |-> QueueOutputs, history |-> FALSE, cmds |-> {"Break", "Delete"},
               maxPushed |-> MaxPushed, maxRuns |-> MaxRuns, maxCalls |-> 0]

Next ==
    \/ \E cmd \in {"Break", "Delete"} : AddCommandToQueue(cmd)
    \/ Continue
    \/ Step
    \/ \E chunk \in scen.outputs : Data(chunk)
    \/ Tick
    \/ Continuation
    \/ QueueNext

Spec == Init /\ [][Next]_vars

\* SpecCalls: stack and evaluate, called while other calls are under way.

CallOutputs ==
    { <<">">>, <<"null", ">">>, <<"address", "0", "x", "1", ">">>, <<"CRLF">> }

InitCalls ==
    /\ InitRuntime
    /\ mdbConfig = CreateDebugAdapterDescriptor([commandTimeout |-> DeclaredTimeout])
    /\ scen = [outputs |-> CallOutputs, history |-> FALSE, cmds |-> {},
               maxPushed |-> 0, maxRuns |-> 0,
               maxCalls |-> MaxCalls]

NextCalls ==
    \/ Stack
    \/ \E expr \in Exprs : Evaluate(expr)
    \/ \E chunk \in scen.outputs : Data(chunk)
    \/ Tick
    \/ Continuation
    \/ CallContinuation

SpecCalls == InitCalls /\ [][NextCalls]_vars

\* SpecWait: the waits of a few queued commands, chunk by chunk, with the
\* chunks each listener was called with kept as history.

WaitOutputs ==
    { <<">">>, <<"Run">>, <<"ning", ">">>, <<"Run", "ning">>, <<"err", "Run", "ning">> }

InitWait ==
    /\ InitRuntime
    /\ \E settings \in Settings : mdbConfig = CreateDebugAdapterDescriptor(settings)
    /\ scen = [outputs |-> WaitOutputs, history |-> TRUE, cmds |-> {},
               maxPushed |-> WaitMaxRuns, maxRuns |-> WaitMaxRuns, maxCalls |-> 0]

NextWait ==
    \/ Continue
    \/ \E chunk \in scen.outputs : Data(chunk)
    \/ Tick
    \/ Continuation
    \/ QueueNext

SpecWait == InitWait /\ [][NextWait]_vars

\* The state in which start(args) with stopOnEntry has returned: the subprocess
\* was spawned and prompted, Device, Hwtool and Program were written and
\* acknowledged, step('stopOnEntry') started the empty queue, which ended at
\* once.  (SpecStart reaches it.)  The sessions with breakpoints begin here:
\* a command that waits for a pattern before a subprocess exists has no
\* listener and cannot be answered.
Answered(pat) ==
    [kind |-> "wait", pat |-> pat, state |-> "resolved", attached |-> FALSE,
     timerOn |-> FALSE, timeLeft |-> 0, timeout |-> DefaultTimeout, acc |-> <<>>]

Started ==
    /\ mdbThread = 1
    /\ spawned = 1
    /\ stdin = [i \in 1..3 |->
                  [cmd |-> <<"Device", "Hwtool", "Program">>[i], n |-> 0, owner |-> 1,
                   to |-> 1, queued |-> 0]]
    /\ waits = <<Answered(PromptMarker), Answered(PromptMarker), Answered(PromptMarker),
                 Answered(Pattern("Program")), Answered(PromptMarker)>>
    /\ execs = <<[cmd |-> "Device", n |-> 0, owner |-> 1, wp |-> 0, raw |-> "ok", wr |-> 2,
                  written |-> TRUE],
                 [cmd |-> "Hwtool", n |-> 0, owner |-> 1, wp |-> 0, raw |-> "ok", wr |-> 3,
                  written |-> TRUE],
                 [cmd |-> "Program", n |-> 0, owner |-> 1, wp |-> 4, raw |-> "ok", wr |-> 5,
                  written |-> TRUE]>>
    /\ jobs = <<>>
    /\ q = [pending |-> 0, running |-> FALSE, session |-> 1, cbs |-> 0,
            cur |-> 0, curSession |-> 0]
    /\ calls = <<[op |-> "start", pc |-> "returned", exec |-> 3, collect |-> 0,
                  stopOnEntry |-> TRUE, program |-> Program, toolConfiguration |-> 0,
                  left |-> 0,
                  elf |-> [ended |-> "OK", load |-> "OK"]]>>
    /\ symbols = ProcessElfFile(<<>>, Image(Program)).symbols
    /\ pushed = 0
    /\ runs = 1
    /\ heard = [i \in 1..5 |-> NothingHeard]
    /\ bpObjs = <<>>
    /\ breakPoints = [f \in Files |-> <<>>]
    /\ breakpointId = 1
    /\ submitted = <<>>
    /\ events = <<>>
    /\ told = <<>>
    /\ clearCalls = 0
    /\ stdoutBuffer = <<>>
    /\ stdoutBuffering = FALSE
    /\ eventType = ""
    /\ fired = <<>>

\* SpecBp: breakpoints are set, step() starts the queue, the subprocess
\* confirms them, reports an error or stays silent.

BpOutputs == { <<">">>, <<"Breakpoint", ">">>, <<"err">> }

InitBp ==
    /\ Started
    /\ script = <<>>
    /\ mdbConfig = CreateDebugAdapterDescriptor([commandTimeout |-> DeclaredTimeout])
    /\ scen = [outputs |-> BpOutputs, history |-> FALSE, cmds |-> {},
               maxPushed |-> BpMaxPushed, maxRuns |-> 1 + BpMaxRuns, maxCalls |-> 0]

NextBp ==
    \/ \E file \in Files, line \in Lines : SetBreakPoint(file, line)
    \/ Step
    \/ \E chunk \in scen.outputs : Data(chunk)
    \/ Tick
    \/ Continuation
    \/ QueueNext

SpecBp == InitBp /\ [][NextBp]_vars

\* SpecClear: breakpoints are set and cleared, one by one and a file at a
\* time, step() starts the queue, the subprocess answers or reports an error.

InitClear ==
    /\ Started
    /\ script = <<>>
    /\ mdbConfig = CreateDebugAdapterDescriptor([commandTimeout |-> DeclaredTimeout])
    /\ scen = [outputs |-> BpOutputs, history |-> FALSE, cmds |-> {},
               maxPushed |-> ClearMaxPushed, maxRuns |-> 1 + BpMaxRuns,
               maxCalls |-> 1 + ClearMaxCalls]

\* the calls of setBreakPoint, clearBreakPoint, clearBreakpoints and step so far
ClearOps == Len(bpObjs) + clearCalls + (Len(calls) - 1) + (runs - 1)

NextClear ==
    \/ ClearOps < ClearMaxOps /\ \E file \in Files, line \in Lines : SetBreakPoint(file, line)
    \/ ClearOps < ClearMaxOps /\ \E file \in Files, line \in Lines : ClearBreakPoint(file, line)
    \/ ClearOps < ClearMaxOps /\ \E file \in Files : ClearBreakpoints(file)
    \/ \E c \in DOMAIN calls : ClearBreakpointsReturn(c)
    \/ ClearOps < ClearMaxOps /\ Step
    \/ \E chunk \in scen.outputs : Data(chunk)
    \/ Continuation
    \/ QueueNext

SpecClear == InitClear /\ [][NextClear]_vars

\* SpecStop: breakpoints are set, and the subprocess stops at lines with and
\* without a breakpoint, verified by an earlier stop or not.

StopOutputs == { <<">">>, <<"Breakpoint", ">">> }

InitStop ==
    /\ Started
    /\ script = <<>>
    /\ mdbConfig = CreateDebugAdapterDescriptor([commandTimeout |-> DeclaredTimeout])
    /\ scen = [outputs |-> StopOutputs, history |-> FALSE, cmds |-> {},
               maxPushed |-> BpMaxPushed, maxRuns |-> 1 + BpMaxRuns, maxCalls |-> 0]

NextStop ==
    \/ \E file \in Files, line \in Lines : SetBreakPoint(file, line)
    \/ \E file \in Files, line \in Lines : FireEventsForData(file, line)

SpecStop == InitStop /\ [][NextStop]_vars

\* SpecFrames: stack() is called, and the subprocess prints a backtrace in
\* chunks of any size: frame lines and other lines, each ended by '\r\n', then
\* 'null' and the prompt.

FrameLine(index, name, file, line) ==
    [frame |-> TRUE, index |-> index, name |-> name, file |-> file, line |-> line,
     text |-> <<"#">> \o ToDecimal(index) \o FrameSeparator \o name \o FrameAt \o file
                 \o <<":">> \o ToDecimal(line)]

OtherLine(text) == [frame |-> FALSE, text |-> text]

\* `#0  main () at a.c:10`, `#12  isr_2 () at C:/b.c:4`, the value of a local,
\* and a frame line with one blank too few
BacktraceLines ==
    { FrameLine(0, <<"m", "a", "i", "n">>, <<"a", ".", "c">>, 10),
      FrameLine(12, <<"i", "s", "r", "_", "2">>, <<"C", ":", "/", "b", ".", "c">>, 4),
      OtherLine(<<"x", " ", "=", " ", "5">>),
      OtherLine(<<"#", "1", " ", "f", " ", "(", ")", " ", "a", "t", " ", "a", ".", "c", ":",
                  "7">>) }

Backtraces == UNION {[1..n -> BacktraceLines] : n \in 0..MaxLines}

BacktraceOutput(lines) ==
    Concat([i \in DOMAIN lines |-> lines[i].text \o NewLine]) \o <<"null">> \o NewLine
        \o PromptMarker

InitFrames ==
    /\ Started
    /\ script = <<>>
    /\ mdbConfig = CreateDebugAdapterDescriptor([commandTimeout |-> DeclaredTimeout])
    /\ \E lines \in Backtraces :
          scen = [outputs |-> {}, history |-> FALSE, cmds |-> {}, maxPushed |-> 0,
                  maxRuns |-> 1, maxCalls |-> 1 + FramesMaxCalls,
                  lines |-> lines, responses |-> [cmd \in {"Backtrace"} |-> BacktraceOutput(lines)]]

StackUnderWay == \E c \in DOMAIN calls : calls[c].op = "stack" /\ calls[c].pc = "backtrace"

\* the sizes of the chunks: a few characters, or all there is to print
ChunkSizes == (1..MaxChunk) \cup {Len(script)}

NextFrames ==
    \/ ~StackUnderWay /\ Stack
    \/ \E k \in ChunkSizes : Output(k)
    \/ Continuation
    \/ \E c \in DOMAIN calls : StackReturn(c)

SpecFrames == InitFrames /\ [][NextFrames]_vars

\* SpecNotify: the subprocess prints a stop notification, in chunks of any
\* size: the marker and the three fields in some order, each on a line of its
\* own ended by '\r\n'.

FieldText(stop, field) ==
    CASE field = "address" -> AddressPrefix \o ToHex(stop.address, AddressChars)
      [] field = "file" -> FileKey \o stop.file
      [] field = "line" -> SourceLineKey \o ToDecimal(stop.line)

\* `Stop at`, then the fields in the order given
Notification(stop, order) ==
    <<"S">> \o Tail(StopAtMarker) \o NewLine
        \o Concat([i \in DOMAIN order |-> FieldText(stop, order[i]) \o NewLine])

Stops ==
    { [address |-> 486539295, file |-> <<"a", ".", "c">>, line |-> 10],
      [address |-> 18, file |-> <<"C", ":", "/", "b", ".", "c">>, line |-> 4] }

FieldOrders ==
    {o \in [1..3 -> {"address", "file", "line"}] : \A i, j \in 1..3 : o[i] = o[j] => i = j}

InitNotify ==
    /\ Started
    /\ mdbConfig = CreateDebugAdapterDescriptor([commandTimeout |-> DeclaredTimeout])
    /\ \E stop \in Stops, order \in FieldOrders :
          /\ scen = [outputs |-> {}, history |-> FALSE, cmds |-> {}, maxPushed |-> 0,
                     maxRuns |-> 1, maxCalls |-> 1, stop |-> stop, order |-> order]
          /\ script = Notification(stop, order)

NextNotify == \E k \in 1..Len(script) : Output(k)

SpecNotify == InitNotify /\ [][NextNotify]_vars

\* SpecStackStop: stack() is called while the program that is debugged stops.
\* The subprocess prints the stop notification in one chunk (as SpecNotify
\* shows, the chunk in which it is read best) and the backtrace in chunks of
\* a few characters.

PlainStop == [address |-> 486539295, file |-> <<"a", ".", "c">>, line |-> 10]

InitStackStop ==
    /\ Started
    /\ mdbConfig = CreateDebugAdapterDescriptor([commandTimeout |-> DeclaredTimeout])
    /\ \E lines \in Backtraces, order \in FieldOrders :
          /\ scen = [outputs |-> {}, history |-> FALSE, cmds |-> {}, maxPushed |-> 0,
                     maxRuns |-> 1, maxCalls |-> 1 + FramesMaxCalls,
                     lines |-> lines, responses |-> [cmd \in {"Backtrace"} |-> BacktraceOutput(lines)],
                     stop |-> PlainStop, order |-> order]
          /\ script = Notification(PlainStop, order)

\* the notification is the next thing the subprocess prints
StopPending == script # <<>> /\ Head(script) = "S"

NextStackStop ==
    \/ ~StackUnderWay /\ Stack
    \/ StopPending /\ Output(Len(Notification(scen.stop, scen.order)))
    \/ ~StopPending /\ \E k \in ChunkSizes : Output(k)
    \/ Continuation
    \/ \E c \in DOMAIN calls : StackReturn(c)

SpecStackStop == InitStackStop /\ [][NextStackStop]_vars

\* SpecElf: files are read by start(), well-formed and not.

InitElf ==
    /\ InitRuntime
    /\ mdbConfig = CreateDebugAdapterDescriptor([commandTimeout |-> DeclaredTimeout])
    /\ scen = [outputs |-> { <<">">> }, history |-> FALSE, cmds |-> {},
               maxPushed |-> 0, maxRuns |-> 0, maxCalls |-> 1]

NextElf ==
    \/ \E program \in Programs : Start(FALSE, 0, program)
    \/ \E chunk \in scen.outputs : Data(chunk)
    \/ Continuation

SpecElf == InitElf /\ [][NextElf]_vars

\* SpecNote: files with a note section are read by start(), with the sizes,
\* offsets and indices they declare right and wrong.

NextNote ==
    \/ \E program \in NotePrograms : Start(FALSE, 0, program)
    \/ \E chunk \in scen.outputs : Data(chunk)
    \/ Continuation

SpecNote == InitElf /\ [][NextNote]_vars

\* SpecStart: start(args) with and without stopOnEntry, against a subprocess
\* that acknowledges, reports an error or stays silent.

StartOutputs ==
    { <<">">>, <<"Program succeeded", ">">>, <<"Run", "ning", ">">>, <<"err">> }

InitStart ==
    /\ InitRuntime
    /\ mdbConfig = CreateDebugAdapterDescriptor([commandTimeout |-> DeclaredTimeout])
    /\ scen = [outputs |-> StartOutputs, history |-> FALSE, cmds |-> {},
               maxPushed |-> StartMaxCalls, maxRuns |-> StartMaxCalls,
               maxCalls |-> StartMaxCalls]

NextStart ==
    \/ \E stopOnEntry \in BOOLEAN, toolConfiguration \in 0..MaxToolConfig,
          program \in {Program, NoElf} : Start(stopOnEntry, toolConfiguration, program)
    \/ \E c \in DOMAIN calls : StartSet(c)
    \/ \E c \in DOMAIN calls : StartHwtool(c)
    \/ \E c \in DOMAIN calls : StartProgram(c)
    \/ \E c \in DOMAIN calls : StartRun(c)
    \/ \E chunk \in scen.outputs : Data(chunk)
    \/ Tick
    \/ Continuation
    \/ QueueNext

SpecStart == InitStart /\ [][NextStart]_vars

\* SpecOrder: start(args) with lines of tool configuration, one call after
\* the other, against a subprocess that acknowledges, reports an error or
\* stays silent.

InitOrder ==
    /\ InitRuntime
    /\ mdbConfig = CreateDebugAdapterDescriptor([commandTimeout |-> DeclaredTimeout])
    /\ scen = [outputs |-> StartOutputs, history |-> FALSE, cmds |-> {},
               maxPushed |-> OrderMaxCalls, maxRuns |-> OrderMaxCalls,
               maxCalls |-> OrderMaxCalls]

StartUnderWay ==
    \E c \in DOMAIN calls : calls[c].op = "start" /\ calls[c].pc \notin {"returned", "rejected"}

NextOrder ==
    \/ /\ ~StartUnderWay
       /\ \E stopOnEntry \in BOOLEAN, toolConfiguration \in 0..MaxToolConfig :
             Start(stopOnEntry, toolConfiguration, Program)
    \/ \E c \in DOMAIN calls : StartSet(c)
    \/ \E c \in DOMAIN calls : StartHwtool(c)
    \/ \E c \in DOMAIN calls : StartProgram(c)
    \/ \E c \in DOMAIN calls : StartRun(c)
    \/ \E chunk \in scen.outputs : Data(chunk)
    \/ Tick
    \/ Continuation
    \/ QueueNext

SpecOrder == InitOrder /\ [][NextOrder]_vars

\* SpecEval: evaluate() is called for a symbol of the program and for an
\* expression that is none, one call after the other; the subprocess answers
\* each command it reads, in chunks of any size.

EvalExprs == {"x", "y"}

\* the addresses the subprocess may give for an expression
Addresses == {31, 2748}

\* 'The Address of y: 0x...' and the prompt
AddressOutput(address) ==
    <<"address">> \o ConvertNumberToHex(address) \o NewLine \o PromptMarker

EvalResponses(address) ==
    [cmd \in {"PrintA", "Print", "x"} |->
        CASE cmd = "PrintA" -> AddressOutput(address)
          [] cmd = "Print" -> <<"{", "}">> \o NewLine \o PromptMarker
          [] OTHER -> <<"0", "5">> \o NewLine \o PromptMarker]

InitEval ==
    /\ Started
    /\ script = <<>>
    /\ mdbConfig = CreateDebugAdapterDescriptor([commandTimeout |-> DeclaredTimeout])
    /\ \E address \in Addresses :
          scen = [outputs |-> {}, history |-> FALSE, cmds |-> {}, maxPushed |-> 0,
                  maxRuns |-> 1, maxCalls |-> 1 + EvalMaxCalls,
                  address |-> address, responses |-> EvalResponses(address)]

EvaluateUnderWay ==
    \E c \in DOMAIN calls : calls[c].op = "evaluate" /\ calls[c].pc \in {"address", "read"}

NextEval ==
    \/ ~EvaluateUnderWay /\ \E expr \in EvalExprs : Evaluate(expr)
    \/ \E k \in 1..Len(script) : Output(k)
    \/ Continuation
    \/ \E c \in DOMAIN calls : EvaluateAddress(c)
    \/ \E c \in DOMAIN calls : EvaluateRead(c)

SpecEval == InitEval /\ [][NextEval]_vars

\* SpecIdle: breakpoints are set and cleared while the target is stopped and
\* the queue is idle; step() may start the queue.  The subprocess answers every
\* command it reads with the response the command waits for and a prompt, in
\* one chunk.  The continuations and the subprocess are not held back for
\* ever: the event loop runs what is runnable, and the subprocess prints what
\* it has to print.

Answers ==
    [cmd \in {"Break", "Delete", "Run"} |-> Pattern(cmd) \o PromptMarker]

InitIdle ==
    /\ Started
    /\ script = <<>>
    /\ mdbConfig = CreateDebugAdapterDescriptor([commandTimeout |-> DeclaredTimeout])
    /\ scen = [outputs |-> {}, history |-> FALSE, cmds |-> {},
               maxPushed |-> IdleMaxPushed, maxRuns |-> 1 + IdleMaxRuns, maxCalls |-> 1,
               responses |-> Answers]

\* the subprocess prints its answer to the command it read
Answer == script # <<>> /\ Output(Len(script))

NextIdle ==
    \/ \E file \in Files, line \in Lines : SetBreakPoint(file, line)
    \/ \E file \in Files, line \in Lines : ClearBreakPoint(file, line)
    \/ Step
    \/ Answer
    \/ Continuation
    \/ QueueNext

SpecIdle ==
    /\ InitIdle
    /\ [][NextIdle]_vars
    /\ WF_vars(Answer)
    /\ WF_vars(Continuation)
    /\ WF_vars(QueueNext)

\* SpecReject: breakpoints are set and the breakpoints of a file are cleared,
\* step() starts the queue; the subprocess answers every command, or rejects
\* the Delete commands with its error marker, or does not answer them, and
\* time passes.

\* the ways the subprocess behaves on a Delete command
DeleteAnswers ==
    { Answers,
      [Answers EXCEPT !["Delete"] = ErrMarker],
      [Answers EXCEPT !["Delete"] = <<>>] }

InitReject ==
    /\ Started
    /\ script = <<>>
    /\ mdbConfig = CreateDebugAdapterDescriptor([commandTimeout |-> DeclaredTimeout])
    /\ \E responses \in DeleteAnswers :
          scen = [outputs |-> {}, history |-> FALSE, cmds |-> {},
                  maxPushed |-> RejectMaxPushed, maxRuns |-> 1 + RejectMaxRuns,
                  maxCalls |-> 1 + RejectMaxCalls, responses |-> responses]

NextReject ==
    \/ \E file \in Files, line \in Lines : SetBreakPoint(file, line)
    \/ \E file \in Files : ClearBreakpoints(file)
    \/ \E c \in DOMAIN calls : ClearBreakpointsReturn(c)
    \/ Step
    \/ Answer
    \/ Tick
    \/ Continuation
    \/ QueueNext

SpecReject ==
    /\ InitReject
    /\ [][NextReject]_vars
    /\ WF_vars(\E c \in DOMAIN calls : ClearBreakpointsReturn(c))
    /\ WF_vars(Answer)
    /\ WF_vars(Tick)
    /\ WF_vars(Continuation)
    /\ WF_vars(QueueNext)

-----------------------------------------------------------------------------
(* Claims *)

InFlight(i) == execs[i].written /\ ExecState(waits, execs[i]) = "pending"

QueueExecs == {i \in DOMAIN execs : execs[i].owner = 0}

\* C1: the commands given to addCommandToQueue are written in the order they
\* were submitted, and one is written only after the promise of every queue
\* command written before it has settled (resolved or rejected).
C1_FifoOneAtATime ==
    /\ \A i, j \in DOMAIN stdin :
          (i < j /\ stdin[i].owner = 0 /\ stdin[j].owner = 0) => stdin[i].n < stdin[j].n
    /\ \A i, j \in QueueExecs :
          (i < j /\ execs[j].written) => ExecState(waits, execs[i]) # "pending"

\* three commands written, the first while the other two were already queued
C1_Witness ==
    /\ Len(stdin) = 3
    /\ \A i \in 1..3 : stdin[i].owner = 0 /\ stdin[i].n = i
    /\ stdin[1].queued = 2

\* C2: at most one command is in flight (written, its promise not settled),
\* whoever issued it.
C2_AtMostOneInFlight == Cardinality({i \in DOMAIN execs : InFlight(i)}) <= 1

\* C3: no command that was pushed is discarded: it is still queued, or it was
\* started, also when a command before it failed.
C3_NoneDiscarded ==
    \A n \in 1..pushed :
        \/ \E j \in DOMAIN jobs : jobs[j].n = n
        \/ \E i \in QueueExecs : execs[i].n = n

\* C4: a wait that is not answered has a running timer and fails when its time
\* is up; and a listening wait that is called with a chunk holding its pattern
\* (and no error marker) resolves, whatever listeners of timed-out waits are
\* still attached.
C4_TimeoutIsolation ==
    \A i \in DOMAIN waits :
        waits[i].kind = "wait" =>
            /\ waits[i].state = "pending" => waits[i].timerOn /\ waits[i].timeLeft > 0
            /\ waits[i].state = "timeout" => ~waits[i].timerOn /\ waits[i].timeLeft = 0
            /\ (Includes(heard[i].last, waits[i].pat) /\ ~Includes(heard[i].last, ErrMarker))
                  => waits[i].state = "resolved"

\* a wait timed out, and the pattern wait of a later command resolved on a
\* chunk that the listener of an ended wait received as well
C4_Witness ==
    \E i, j \in DOMAIN waits :
        /\ i < j
        /\ waits[i].state = "timeout"
        /\ waits[j].pat = Pattern("Run")
        /\ waits[j].state = "resolved"
        /\ heard[j].leaked

\* C5: an attached listener and a running interval timer belong to a wait that
\* is still pending.
C5_ListenersOfPendingWaits ==
    \A i \in DOMAIN waits :
        (waits[i].attached \/ waits[i].timerOn) => waits[i].state = "pending"

\* C6: a chunk that answers a pending wait for a pattern or for the prompt, and
\* does not hold the line end evaluate collects up to, is not accumulated by the
\* collect-while listener.
C6_Isolation ==
    [][\A chunk \in scen.outputs :
          (Data(chunk) /\ ~Includes(chunk, NewLine)
             /\ \E j \in Listening(waits) :
                   waits[j].kind = "wait" /\ Includes(chunk, waits[j].pat))
          => \A i \in Listening(waits) :
                waits[i].kind = "collect" => waits'[i].acc = waits[i].acc]_vars

\* C7: a listening wait that was called with a chunk holding the error marker
\* has failed with a tool error, whether or not the chunk holds its pattern,
\* and stays failed.
C7_ErrorFailsWait ==
    \A i \in DOMAIN waits :
        (waits[i].kind = "wait" /\ Includes(heard[i].last, ErrMarker))
            => waits[i].state = "error"

\* a wait failed on a chunk that holds the error marker and its pattern
C7_Witness ==
    \E i \in DOMAIN waits :
        /\ waits[i].state = "error"
        /\ Includes(heard[i].last, ErrMarker)
        /\ Includes(heard[i].last, waits[i].pat)

\* C8: a wait whose pattern occurs in the output its listener received, however
\* split into chunks, has resolved (unless an error marker failed it).
C8_PatternOccurredResolves ==
    \A i \in DOMAIN waits :
        (waits[i].kind = "wait" /\ heard[i].occurred /\ waits[i].state # "error")
            => waits[i].state = "resolved"

\* C9: nothing is spawned before the first command, at most one subprocess is
\* spawned, and every command is written to it.
C9_SingleSpawn ==
    /\ spawned <= 1
    /\ execs = <<>> => spawned = 0 /\ mdbThread = 0
    /\ \A i \in DOMAIN stdin : stdin[i].to = 1

\* two calls under way at once had their commands written
C9_Witness ==
    /\ Len(stdin) >= 2
    /\ stdin[1].owner # stdin[2].owner
    /\ \E i \in DOMAIN execs : execs[i].owner = stdin[1].owner /\ InFlight(i)

\* C10: a wait that timed out had the configured command timeout as deadline.
C10_ConfiguredTimeout ==
    \A i \in DOMAIN waits :
        waits[i].state = "timeout" => waits[i].timeout = mdbConfig.timeout

-----------------------------------------------------------------------------
(* Claims about breakpoints *)

\* object o is in the list of file
InList(o, file) == \E i \in DOMAIN breakPoints[file] : breakPoints[file][i] = o

\* command n was run by the queue and its promise resolved
Completed(n) ==
    \E i \in QueueExecs : execs[i].n = n /\ ExecState(waits, execs[i]) = "ok"

\* command n, while it is queued and once it is run, is a cmd command
IsCmd(n, cmd) ==
    /\ \A j \in DOMAIN jobs : jobs[j].n = n => jobs[j].cmd = cmd
    /\ \A i \in QueueExecs : execs[i].n = n => execs[i].cmd = cmd

\* the commands submitted with a callback of the given kind for object o
SubmittedFor(kind, o) ==
    {n \in DOMAIN submitted : submitted[n].cb.kind = kind /\ submitted[n].cb.obj = o}

\* C11: the ids of the breakpoints setBreakPoint returned are strictly
\* increasing in call order (so no two breakpoints share an id), whatever was
\* cleared in between.
C11_IdsIncrease ==
    \A i, j \in DOMAIN bpObjs : i < j => bpObjs[i].id < bpObjs[j].id

\* a breakpoint was set and cleared, and then one was set on another file
C11_Witness ==
    /\ clearCalls >= 1
    /\ \E i, j \in DOMAIN bpObjs :
          i < j /\ (\A file \in Files : ~InList(i, file)) /\ InList(j, "b.c")

\* C12: when clearBreakpoints(file) resolves, getBreakpoints(file, 0) returns
\* none of the breakpoints the file had when it was called.
C12_ClearedFileIsEmpty ==
    [][\A c \in DOMAIN calls :
          ClearBreakpointsReturn(c)
          => LET left == GetBreakpoints(bpObjs', breakPoints', calls[c].file, 0)
             IN \A i \in DOMAIN calls[c].registered, j \in DOMAIN left :
                   left[j] # calls[c].registered[i]]_vars

\* C13: clearBreakpoints(file) submits one Delete command for the id of each
\* breakpoint the file had, and no other; it resolves only when all of them
\* have completed.
C13_OneDeletePerBreakpoint ==
    \A c \in DOMAIN calls :
        calls[c].op = "clearBreakpoints" =>
            LET ns == {n \in DOMAIN submitted :
                          submitted[n].cb.kind = "clearAll" /\ submitted[n].cb.call = c}
                reg == calls[c].registered
            IN /\ Cardinality(ns) = Len(reg)
               /\ \A n \in ns : IsCmd(n, "Delete")
               /\ \A i \in DOMAIN reg : \E n \in ns : submitted[n].arg = bpObjs[reg[i]].id
               /\ calls[c].pc = "resolved" => \A n \in ns : Completed(n)

\* clearBreakpoints resolved for a file that had two breakpoints
C13_Witness ==
    \E c \in DOMAIN calls :
        /\ calls[c].op = "clearBreakpoints"
        /\ calls[c].pc = "resolved"
        /\ Len(calls[c].registered) = 2

\* C14: a breakpoint is out of its file's list exactly when clearBreakPoint
\* removed it, and then exactly one Delete command with its id was submitted
\* for it; the caller's callback is called with it, once at most, only when
\* that command has completed.
C14_ClearRemovesThenDeletes ==
    /\ \A o \in DOMAIN bpObjs :
          LET ns == SubmittedFor("cleared", o)
          IN IF \E file \in Files : InList(o, file)
             THEN ns = {}
             ELSE /\ Cardinality(ns) = 1
                  /\ \A n \in ns : IsCmd(n, "Delete")
                                      /\ submitted[n].arg = bpObjs[o].id
    /\ \A i \in DOMAIN told :
          /\ told[i].n \in SubmittedFor("cleared", told[i].obj)
          /\ Completed(told[i].n)
          /\ \A j \in DOMAIN told : told[j].obj = told[i].obj => j = i

\* the callback of a clearBreakPoint was called with the removed breakpoint
C14_Witness ==
    \E i \in DOMAIN told : \A file \in Files : ~InList(told[i].obj, file)

\* C15: clearBreakPoint(file, line) with no breakpoint of the file at that
\* line changes no list and no object, submits no command, and calls the
\* caller's callback to report that there was none (with no breakpoint).
C15_AbsentIsReported ==
    [][\A file \in Files, line \in Lines :
          (ClearBreakPoint(file, line) /\ FindIndex(bpObjs, breakPoints[file], line) = 0)
          => /\ UNCHANGED <<breakPoints, bpObjs, jobs, submitted>>
             /\ told' = Append(told, [n |-> 0, obj |-> 0])]_vars

C17_FailedStaysUnverified ==
    \A o \in DOMAIN bpObjs :
        (\A n \in SubmittedFor("verify", o) : ~Completed(n))
        => /\ ~bpObjs[o].verified
           /\ \A j \in DOMAIN events : events[j].obj # o
           /\ \E file \in Files :
                 LET bps == GetBreakpoints(bpObjs, breakPoints, file, 0)
                 IN \E i \in DOMAIN bps : bps[i] = o

\* the Break command of a breakpoint timed out and the queue went on to next()
C17_Witness ==
    \E i \in QueueExecs :
        /\ execs[i].cmd = "Break"
        /\ waits[execs[i].wp].state = "timeout"
        /\ q.cur # i
        /\ ~bpObjs[submitted[execs[i].n].cb.obj].verified

\* C18: fireEventsForData for a STOP_AT sends exactly one stop event:
\* stopOnBreakpoint when the file has a breakpoint at the line (one at that
\* line is then verified, and breakpointValidated is sent for it exactly if it
\* was not), otherwise stopOnException with the file and line reported.
C18_OneStopEvent ==
    [][\A file \in Files, line \in Lines :
          FireEventsForData(file, line)
          => LET new == SubSeq(events', Len(events) + 1, Len(events'))
                 stops == SelectSeq(new, LAMBDA e :
                             e.type \in {"stopOnBreakpoint", "stopOnException"})
                 at == {o \in DOMAIN bpObjs : InList(o, file) /\ bpObjs[o].line = line}
             IN /\ Len(stops) = 1
                /\ IF at # {}
                   THEN /\ stops[1].type = "stopOnBreakpoint"
                        /\ \E o \in at :
                              /\ bpObjs'[o].verified
                              /\ ~bpObjs[o].verified <=>
                                    \E j \in DOMAIN new :
                                        new[j].type = "breakpointValidated" /\ new[j].obj = o
                   ELSE /\ stops[1] = [type |-> "stopOnException", obj |-> 0,
                                      file |-> file, line |-> line]
                        /\ Len(new) = 1
                        /\ UNCHANGED bpObjs]_vars

\* the subprocess stopped once at a breakpoint that was not verified and once
\* where there is none
C18_Witness ==
    \E i, j, k \in DOMAIN events :
        /\ j = i + 1
        /\ events[i].type = "stopOnBreakpoint"
        /\ events[j].type = "breakpointValidated"
        /\ events[k].type = "stopOnException"

-----------------------------------------------------------------------------
(* Claims about start *)

\* nothing is queued, running or awaited: without a new call or output nothing
\* more is written
AtRest ==
    /\ Quiescent
    /\ jobs = <<>>
    /\ q.pending = 0
    /\ \A i \in DOMAIN execs : ExecState(waits, execs[i]) # "pending"

\* C19: when start with stopOnEntry has returned and the runtime is at rest,
\* one step command was written after Program, a stopOnEntry event was sent
\* and no Run command was written.
C19_StopOnEntrySteps ==
    \A c \in DOMAIN calls :
        (calls[c].op = "start" /\ calls[c].pc = "returned" /\ calls[c].stopOnEntry /\ AtRest)
        => /\ \E i \in DOMAIN stdin :
                 /\ stdin[i].cmd = "Step"
                 /\ \E j \in 1..(i - 1) : stdin[j].cmd = "Program"
                 /\ \A k \in DOMAIN stdin : stdin[k].cmd = "Step" => k = i
           /\ \E j \in DOMAIN events : events[j].type = "stopOnEntry"
           /\ \A i \in DOMAIN stdin : stdin[i].cmd # "Run"

\* C20: when start has been rejected, an end event has been sent.
C20_FailedStartEnds ==
    \A c \in DOMAIN calls :
        (calls[c].op = "start" /\ calls[c].pc = "rejected")
        => \E j \in DOMAIN events : events[j].type = "end"

\* C21: a start whose ELF load returned INVALID_ELF is not rejected: it has
\* issued the Device command (Hwtool and the program load follow it), and the
\* symbol map is empty, so that evaluate asks for the address of every
\* expression.
C21_InvalidElfStillStarts ==
    \A c \in DOMAIN calls :
        (calls[c].op = "start" /\ calls[c].elf.load = "INVALID_ELF")
        => /\ calls[c].pc # "rejected"
           /\ \E i \in DOMAIN execs : execs[i].owner = c /\ execs[i].cmd = "Device"
           /\ DOMAIN symbols = {}

-----------------------------------------------------------------------------
(* Claims about the ELF reader *)

\* the files that start() has read
Loaded == {c \in DOMAIN calls : calls[c].op = "start" /\ calls[c].elf # NotLoaded}

\* the name as a string
RECURSIVE NameOf(_)
NameOf(chars) == IF chars = <<>> THEN "" ELSE Head(chars) \o NameOf(Tail(chars))

\* C23: the load of an image whose header declares program headers, or section
\* headers, that end behind the end of the file (offset + number * entry size
\* exceeds the length) returns INVALID_ELF.
C23_BoundsAreChecked ==
    \A c \in Loaded :
        LET p == calls[c].program.p
        IN (\/ p.phoff + p.phnum * p.phentsize > p.length
            \/ p.shoff + p.shnum * p.shentsize > p.length)
           => calls[c].elf.load = "INVALID_ELF"

C25_SymbolTablesNeverFail ==
    \A c \in Loaded :
        LET p == calls[c].program.p
            w == WellFormed(calls[c].program.syms)
        IN [p EXCEPT !.symoff = w.symoff, !.symsize = w.symsize, !.syment = w.syment] = w
           => calls[c].elf.load = "OK"

-----------------------------------------------------------------------------
(* Claims about what is read from the subprocess's output *)

\* the frames that stand on the lines the subprocess printed
ExpectedFrames(lines) ==
    LET frames == SelectSeq(lines, LAMBDA l : l.frame)
    IN [i \in DOMAIN frames |->
           [index |-> frames[i].index, name |-> Str(frames[i].name),
            file |-> Str(frames[i].file), line |-> frames[i].line]]

\* C22: a stack() call that returned gives one frame for each line of the
\* backtrace of the form `#<index>  <name> () at <file>:<line>`, in the order
\* of the output, with the index, name, file and line of the line, no frame
\* for any other line, and a count that is the number of its frames.
C22_FramesAreTheFrameLines ==
    \A c \in DOMAIN calls :
        calls[c].op = "stack" /\ calls[c].pc = "returned"
          => /\ calls[c].frames = ExpectedFrames(scen.lines)
             /\ calls[c].count = Len(calls[c].frames)

\* a call returned frames for a backtrace that also held another line
C22_Witness ==
    \E c \in DOMAIN calls :
        /\ calls[c].op = "stack" /\ calls[c].pc = "returned"
        /\ Len(calls[c].frames) >= 1
        /\ \E i \in DOMAIN scen.lines : ~scen.lines[i].frame

\* the event data a stop notification stands for
ExpectedStop(stop) ==
    [eventType |-> "STOP_AT", address |-> stop.address, file |-> Str(stop.file),
     line |-> stop.line]

\* C26: a stop notification produces exactly one STOP_AT event, with the
\* address read as hex, the file, and the line read as an integer: never more
\* than one is dispatched, and once the subprocess has printed all of the
\* notification, the one dispatched is that of the notification.
C26_OneStopAtPerNotification ==
    /\ Len(fired) <= 1
    /\ script = <<>> => fired = <<ExpectedStop(scen.stop)>>

\* C27: a STOP_AT event is never dispatched with one of address, file and
\* source line missing, whatever the chunks.
C27_NoFieldMissing ==
    \A i \in DOMAIN fired :
        fired[i].eventType = "STOP_AT"
          => /\ fired[i].address # Undefined
             /\ fired[i].file # ""
             /\ fired[i].line # Undefined

\* C28: a stop notification and a stack() call do not disturb each other:
\* once the subprocess has printed the notification, exactly one STOP_AT
\* event with its fields has been dispatched, and a stack() call that
\* returned gives the frames of the backtrace that was printed.
C28_StackAndStopApart ==
    /\ Len(fired) <= 1
    /\ ~StopPending => fired = <<ExpectedStop(scen.stop)>>
    /\ \A c \in DOMAIN calls :
          calls[c].op = "stack" /\ calls[c].pc = "returned"
            => calls[c].frames = ExpectedFrames(scen.lines)

-----------------------------------------------------------------------------
(* Claims about the order of start() *)

\* the commands start() call c has issued, in order
OwnExecs(c) == SelectSeq([i \in DOMAIN execs |-> i], LAMBDA i : execs[i].owner = c)

\* what was written to the subprocess for call c, in order
OwnWrites(c) == SelectSeq(stdin, LAMBDA w : w.owner = c)

\* Set, ..., Set, Device, Hwtool, Program for `lines` lines of tool configuration
StartOrder(lines) == [i \in 1..lines |-> "Set"] \o <<"Device", "Hwtool", "Program">>

-----------------------------------------------------------------------------
(* Claims about evaluate() *)

\* the memory-read commands written for the call c, and its address-of queries
Reads(c) == {i \in DOMAIN stdin : stdin[i].owner = c /\ stdin[i].cmd = "x"}
AddressQueries(c) == {i \in DOMAIN execs : execs[i].owner = c /\ execs[i].cmd = "PrintA"}

\* the read of the call c is made with this address and this length
ReadsWith(c, address, length) ==
    /\ calls[c].hexAddress = ConvertNumberToHex(address)
    /\ calls[c].length = length

\* C30: evaluate reads memory only after the address is known: with the
\* address and the length of the symbol and without an address-of query when
\* the expression is in the symbol map; else after one address-of query, with
\* the address the subprocess gave in its response and with length 1.
C30_ReadsAtKnownAddress ==
    \A c \in DOMAIN calls :
        calls[c].op = "evaluate" =>
            LET symbol == calls[c].existingSymbolInformation
            IN IF calls[c].pc = "address"
               THEN Reads(c) = {}
               ELSE Reads(c) # {} =>
                       IF symbol # <<>>
                       THEN /\ AddressQueries(c) = {}
                            /\ ReadsWith(c, symbol[1].address, symbol[1].length)
                       ELSE /\ Cardinality(AddressQueries(c)) = 1
                            /\ \A i \in AddressQueries(c) : execs[i].raw # "ready"
                            /\ ReadsWith(c, scen.address, 1)

-----------------------------------------------------------------------------
(* Claims about commands given to an idle queue *)

\* the n-th command given to addCommandToQueue was written to the subprocess
Written(n) == \E i \in DOMAIN stdin : stdin[i].n = n

\* C31: every command given to the command queue is written to the
\* subprocess in the end, when the subprocess answers every command it reads:
\* also a command given while the queue is idle, with no continue or step
\* after it.
C31_SubmittedIsWritten ==
    \A n \in 1..IdleMaxPushed : (pushed >= n) ~> Written(n)

-----------------------------------------------------------------------------
(* Claims about the Break and Delete commands of a breakpoint *)

\* the Break commands given to the queue for the breakpoint object o
BreaksFor(o) ==
    {i \in DOMAIN submitted : submitted[i].cb.kind = "verify" /\ submitted[i].cb.obj = o}

\* C32: at most one Break command is given to the queue for a registered
\* breakpoint: setBreakPoint gives one for the new breakpoint and none for the
\* breakpoints of the file whose Break command is still pending.
C32_OneBreakPerBreakpoint ==
    \A o \in DOMAIN bpObjs : Cardinality(BreaksFor(o)) <= 1

\* the Delete commands submitted for a breakpoint, by clearBreakPoint or by
\* clearBreakpoints
DeletesFor(o) == SubmittedFor("cleared", o) \cup SubmittedFor("clearAll", o)

\* C33: once a Delete command has been submitted for a breakpoint, no Break
\* command for that breakpoint is submitted afterwards.
C33_NoBreakAfterDelete ==
    \A o \in DOMAIN bpObjs : \A d \in DeletesFor(o), b \in BreaksFor(o) : b < d

\* C34: clearBreakpoints(file) eventually completes, whatever the subprocess
\* does with the Delete commands.  Checked for the calls one of whose Delete
\* commands has been written to the subprocess, so with the queue started.
C34_ClearBreakpointsCompletes ==
    \A c \in 2..(1 + RejectMaxCalls) :
        (/\ c \in DOMAIN calls
         /\ calls[c].pc = "waiting"
         /\ \E n \in calls[c].waiting : Written(n))
        ~> (c \in DOMAIN calls /\ calls[c].pc = "resolved")

\* C36: breakpointValidated is emitted only for a breakpoint that is in the
\* list of a file when its verification completes; a breakpoint that
\* clearBreakPoint removed while its Break command was queued is not reported
\* validated afterwards.
C36_ValidatedIsRegistered ==
    [][\A i \in DOMAIN events' :
          (i > Len(events) /\ events'[i].type = "breakpointValidated")
          => \E file \in Files : \E k \in DOMAIN breakPoints'[file] :
                breakPoints'[file][k] = events'[i].obj]_vars

-----------------------------------------------------------------------------
(* Claims about the start of the subprocess *)

\* the wait guardMDBSetup made when it spawned the subprocess: the first wait
\* for the prompt
GuardWaits ==
    {i \in DOMAIN waits :
        /\ waits[i].pat = PromptMarker
        /\ \A j \in 1..(i - 1) : waits[j].pat # PromptMarker}

PromptObserved == \E i \in GuardWaits : waits[i].state = "resolved"

\* C35: no command is written to the subprocess before its first prompt has
\* been observed, however the commands are issued while it is starting.
C35_NoWriteBeforePrompt == stdin # <<>> => PromptObserved

-----------------------------------------------------------------------------
(* Claims about the bounds of the ELF reader *)

\* the calls of start that read a file with a note section
NoteLoaded == {c \in Loaded : "notesize" \in DOMAIN calls[c].program.p}

\* the note record of the file declares a name or a description that ends
\* behind the end of the file
ClaimsBeyond(p) ==
    \/ p.namesz > 0 /\ NoteNameOffset + p.namesz > p.length
    \/ /\ p.descsz > 0
       /\ (IF p.namesz > 0 THEN Padded(NoteNameOffset + p.namesz, p.namesz)
           ELSE NoteNameOffset) + p.descsz > p.length

\* C37: when a note record declares a name size or a description size that
\* claims bytes behind the end of the buffer, the load returns INVALID_ELF
\* (it neither throws for a read at or behind the end nor returns OK).
C37_NoteBeyondBufferIsInvalid ==
    \A c \in NoteLoaded :
        ClaimsBeyond(calls[c].program.p) => calls[c].elf.load = "INVALID_ELF"

\* the ELFFile that the call loaded
ElfOf(c) == ELFFileLoad(Image(calls[c].program))

\* the offsets of the bytes of a section
SectionRange(sh) == {o \in sh.Sh_Offset..(sh.Sh_Offset + sh.Sh_Size - 1) : TRUE}

\* C38: resolving the name of a section reads bytes only when e_shstrndx is
\* the index of a section, resolving the name of a symbol only when sh_link
\* of the symbol table is, and every byte read lies in that section and in
\* the buffer.
C38_NamesReadInsideStringTable ==
    \A c \in NoteLoaded :
        \A bytes \in {Image(calls[c].program)} : \A elf \in {ELFFileLoad(bytes)} :
            elf.result \in {"OK", "INVALID_ELF"} =>
                /\ \A i \in DOMAIN elf.elfSectionHeaderTables :
                      \A reads \in {NameReads(bytes, elf, elf.elfSectionHeaderTables[i])} :
                          reads # {} =>
                             /\ elf.elfHeader.E_Shstrndx < elf.elfHeader.E_Shnum
                             /\ reads \subseteq SectionRange(
                                    elf.elfSectionHeaderTables[elf.elfHeader.E_Shstrndx + 1])
                             /\ \A o \in reads : o < Len(bytes)
                /\ \A k \in DOMAIN elf.elfSymbolTables :
                      \A j \in DOMAIN elf.elfSymbolTables[k].symTabEntries :
                         \A reads \in {StNameReads(bytes, elf, elf.elfSymbolTables[k],
                                                   elf.elfSymbolTables[k].symTabEntries[j])} :
                            reads # {} =>
                               /\ elf.elfSymbolTables[k].sh.Sh_Link < elf.elfHeader.E_Shnum
                               /\ reads \subseteq SectionRange(
                                      elf.elfSectionHeaderTables[
                                          elf.elfSymbolTables[k].sh.Sh_Link + 1])
                               /\ \A o \in reads : o < Len(bytes)

\* the name x was resolved in a string table declared one byte shorter than
\* it is, so that the name ends with the table and not with a byte 0
C38_Witness ==
    \E c \in NoteLoaded :
        /\ calls[c].program.p.strsize = Len(StringTable(ElfSymbols)) - 1
        /\ calls[c].program.p.stname = 1
        /\ calls[c].program.p.link = 3
        /\ calls[c].elf.ended = "OK"
        /\ "x" \in DOMAIN symbols

\* C39: ELFFile.load returns or throws for every file, also for one whose
\* symbol table declares entries of size 0 and a size that is not 0.
C39_LoadTerminates ==
    \A c \in Loaded : calls[c].elf.load # "never returns"

====
